---- MODULE Spec2Model ----
(***************************************************************************)
(* Constellation (python): model of the data transport (CDTP) of           *)
(* constellation/core/cdtp.py, of the HDF5 data receiver of                *)
(* constellation/core/datareceiver.py, of the command receiver of          *)
(* constellation/core/commandmanager.py with the task worker, of the       *)
(* heartbeat sender of constellation/core/heartbeater.py and of a checker  *)
(* of the heartbeats of peers, of the monitoring publisher, the metric     *)
(* sender and the monitoring listener of constellation/core/monitoring.py, *)
(* of the configuration of constellation/core/configuration.py, of the     *)
(* CHIRP messages and the beacon of constellation/core/chirp.py and of the *)
(* run loop of constellation/satellites/eCTStage/ectstage.py.              *)
(*                                                                         *)
(* Python values are records [t, n]: t is the type ("nil", "int", "str",   *)
(* "bin", "list") and n the integer value (int) or the length (str, bin,   *)
(* list); nil has n = 0.  A value is falsy in Python exactly when n = 0.   *)
(* A meta map is a function from keys (strings) to such values.            *)
(***************************************************************************)
EXTENDS Integers, Sequences, FiniteSets, TLC

\* ------------------------------------------------------------------ bounds
MaxSends == 4
MaxWire == 1
MaxPuts == 2

\* ---------------------------------------------------------- python values
PyNone == [t |-> "nil", n |-> 0]
PyInt(k) == [t |-> "int", n |-> k]
PyStr(k) == [t |-> "str", n |-> k]
PyBin(k) == [t |-> "bin", n |-> k]
PyList(k) == [t |-> "list", n |-> k]
\* A list given by its items.
PyListOf(items) == [t |-> "list", n |-> Len(items), items |-> items]

\* Python truth value of an object, as used by "if payload:".
Truthy(v) == v.n # 0

NoMeta == [k \in {} |-> PyNone]
RunMeta == [k \in {"run"} |-> PyInt(1)]
Metas == {NoMeta, RunMeta}

\* Payloads handed to send_start / send_data / send_end.
Payloads == {PyNone, PyInt(0), PyBin(1), PyStr(1)}

\* ------------------------------------------------------- msgpack (payload)
\* msgpack.Packer().pack: nil is 0xc0, a small int is a positive fixint, a
\* short str is a fixstr (0xa0 + len), bytes are bin8 (0xc4, len), a short
\* list is a fixarray (0x90 + len).  The content of a str is taken to be
\* "a" (97) repeated, of bytes 1 repeated, of a list the integer 0 repeated.
Pack(v) ==
    CASE v.t = "nil" -> <<192>>
      [] v.t = "int" -> <<v.n>>
      [] v.t = "str" -> <<160 + v.n>> \o [i \in 1..v.n |-> 97]
      [] v.t = "bin" -> <<196, v.n>> \o [i \in 1..v.n |-> 1]
      [] v.t = "list" -> <<144 + v.n>> \o [i \in 1..v.n |-> 0]

\* msgpack.unpackb on the first byte of the frame.
Unpackb(frame) ==
    LET b == frame[1] IN
    CASE b = 192 -> PyNone
      [] b < 128 -> PyInt(b)
      [] b >= 160 /\ b < 192 -> PyStr(b - 160)
      [] b = 196 -> PyBin(frame[2])
      [] b >= 144 /\ b < 160 -> PyList(b - 144)

\* ----------------------------------------------------- message identifiers
DAT == 0
BOR == 1
EOR == 2
CDTPMessageIdentifier == {DAT, BOR, EOR}

\* --------------------------------------------------------- message header
\* MessageHeader.send: the header frame of a CDTP message.  The timestamp is
\* left out: no operation of the model reads it.
HeaderEncode(name, msgtype, seqno, meta) ==
    [protocol |-> "CDTP", sender |-> name, msgtype |-> msgtype,
     seqno |-> seqno, meta |-> meta]

\* MessageHeader.decode: fails on a frame that is no CDTP header.
HeaderOk(frame) == frame.protocol = "CDTP"
HeaderDecode(frame) ==
    [name |-> frame.sender, msgtype |-> frame.msgtype,
     seqno |-> frame.seqno, meta |-> frame.meta]

VARIABLES
    sequence_number,  \* DataTransmitter.sequence_number
    wire,             \* multipart messages on the data socket, oldest first
    sent,             \* history: msgtype and seqno of every message sent
    asked,            \* history: what the calls behind the messages on the wire asked for
    rcvd,             \* the CDTPMessage the last recv() returned
    rcvd_asked        \* history: what the call behind rcvd asked for

txvars == <<sequence_number, wire, sent, asked, rcvd, rcvd_asked>>

\* ------------------------------------------------------- DataTransmitter
\* _dispatch: the multipart message put on the socket; a payload frame only
\* follows the header "if payload:".
DispatchFrames(name, msgtype, seqno, payload, meta) ==
    IF Truthy(payload)
    THEN <<HeaderEncode(name, msgtype, seqno, meta), Pack(payload)>>
    ELSE <<HeaderEncode(name, msgtype, seqno, meta)>>

\* The counter value with which send_start / send_data / send_end dispatch.
SendStartSeq_NoReset(seq) == seq
SendStartSeq(seq) == 0
SendDataSeq(seq) == seq + 1
SendEndSeq(seq) == seq

\* CDTPMessage.set_header accepts only the values of CDTPMessageIdentifier.
SetHeaderOk(hdr) == hdr.msgtype \in CDTPMessageIdentifier

\* DataTransmitter.decode, for a message whose header decodes: several
\* payload frames become the list of the decoded frames, one frame its
\* decoded value, none leaves the payload None.
DecodePayload_FirstFrame(binmsg) ==
    IF Len(binmsg) >= 2 THEN Unpackb(binmsg[2]) ELSE PyNone
DecodePayload(binmsg) ==
    IF Len(Tail(binmsg)) > 1
    THEN PyListOf([i \in 1..Len(Tail(binmsg)) |-> Unpackb(Tail(binmsg)[i])])
    ELSE IF Len(binmsg) >= 2 THEN Unpackb(binmsg[2]) ELSE PyNone

DecodeOk(binmsg) == HeaderOk(binmsg[1]) /\ SetHeaderOk(HeaderDecode(binmsg[1]))

Decode(binmsg) ==
    LET h == HeaderDecode(binmsg[1]) IN
    [name |-> h.name, msgtype |-> h.msgtype, sequence_number |-> h.seqno,
     meta |-> h.meta, payload |-> DecodePayload(binmsg)]

NoMessage == [name |-> "", msgtype |-> DAT, sequence_number |-> 0,
              meta |-> NoMeta, payload |-> PyNone]

NoCall == [msgtype |-> DAT, seqno |-> 0, payload |-> PyNone, meta |-> NoMeta]

InitTx ==
    /\ sequence_number = 0
    /\ wire = <<>>
    /\ sent = <<>>
    /\ asked = <<>>
    /\ rcvd = NoMessage
    /\ rcvd_asked = NoCall

\* One send_* call: the counter is set, then _dispatch puts the message on
\* the socket (a PUSH socket holding at most MaxWire messages).
Dispatch(msgtype, seqno, payload, meta) ==
    /\ Len(sent) < MaxSends
    /\ Len(wire) < MaxWire
    /\ sequence_number' = seqno
    /\ wire' = Append(wire, DispatchFrames("tx", msgtype, seqno, payload, meta))
    /\ sent' = Append(sent, [msgtype |-> msgtype, seqno |-> seqno])
    /\ asked' = Append(asked, [msgtype |-> msgtype, seqno |-> seqno,
                               payload |-> payload, meta |-> meta])
    /\ UNCHANGED <<rcvd, rcvd_asked>>

send_start ==
    \E p \in Payloads, m \in Metas :
        Dispatch(BOR, SendStartSeq(sequence_number), p, m)

send_data ==
    \E p \in Payloads, m \in Metas :
        Dispatch(DAT, SendDataSeq(sequence_number), p, m)

send_end ==
    \E p \in Payloads, m \in Metas :
        Dispatch(EOR, SendEndSeq(sequence_number), p, m)

\* recv: take the oldest multipart message off the socket and decode it.
recv ==
    /\ wire # <<>>
    /\ rcvd' = Decode(Head(wire))
    /\ rcvd_asked' = Head(asked)
    /\ wire' = Tail(wire)
    /\ asked' = Tail(asked)
    /\ UNCHANGED <<sequence_number, sent>>

\* ------------------------------------------------------------ DataSender
\* The producer satellite (constellation/core/datasender.py): BOR is sent at
\* entry to RUN; do_run puts (payload, meta) on data_queue; a push worker
\* takes the items off the queue in order and sends each as DAT; EOR is sent
\* at exit from RUN, once the queue is drained.
VARIABLES
    snd_state,   \* lifecycle state of the producer: "ORBIT" or "RUN"
    data_queue,  \* DataSender.data_queue: (payload, meta) items, oldest first
    puts,        \* history: the items put on data_queue during the run
    pushed       \* history: the messages pushed on the data socket in the run

sndvars == <<snd_state, data_queue, puts, pushed>>

\* Payloads do_run puts on the queue (rpsatellite.py: payload.tolist(),
\* payload.tobytes(); test_cdtp.py: a str).
QueuePayloads == {PyBin(0), PyBin(1), PyStr(1)}

InitSnd ==
    /\ snd_state = "ORBIT"
    /\ data_queue = <<>>
    /\ puts = <<>>
    /\ pushed = <<>>

\* start: entry to RUN, BOR with the run's meta.
snd_start ==
    /\ snd_state = "ORBIT"
    /\ Dispatch(BOR, SendStartSeq(sequence_number), PyNone, RunMeta)
    /\ snd_state' = "RUN"
    /\ puts' = <<>>
    /\ pushed' = <<wire'[Len(wire')]>>
    /\ UNCHANGED data_queue

\* do_run: self.data_queue.put((payload, meta)).
snd_put ==
    \E p \in QueuePayloads, m \in Metas :
        /\ snd_state = "RUN"
        /\ Len(puts) < MaxPuts
        /\ data_queue' = Append(data_queue, [payload |-> p, meta |-> m])
        /\ puts' = Append(puts, [payload |-> p, meta |-> m])
        /\ UNCHANGED <<snd_state, pushed, txvars>>

\* push worker: payload, meta = queue.get(); send_data(payload, meta).
snd_push ==
    /\ data_queue # <<>>
    /\ Dispatch(DAT, SendDataSeq(sequence_number),
                Head(data_queue).payload, Head(data_queue).meta)
    /\ data_queue' = Tail(data_queue)
    /\ pushed' = Append(pushed, wire'[Len(wire')])
    /\ UNCHANGED <<snd_state, puts>>

\* stop: exit from RUN, EOR after the queued payloads.
snd_stop ==
    /\ snd_state = "RUN"
    /\ data_queue = <<>>
    /\ Dispatch(EOR, SendEndSeq(sequence_number), PyNone, RunMeta)
    /\ snd_state' = "ORBIT"
    /\ pushed' = Append(pushed, wire'[Len(wire')])
    /\ UNCHANGED <<data_queue, puts>>

\* The consumer end of the data socket.
snd_recv == recv /\ UNCHANGED sndvars

\* ------------------------------------------------- H5DataReceiverWriter
\* The HDF5 file is a function from group names to groups; a group has
\* named members (subs: "BOR", "EOR", "constellation_version") and data sets
\* keyed by title, the pair <<run_number, sequence_number>> standing for
\* f"data_{run_number}_{sequence_number}".  A member is a node with its HDF5
\* attributes (attrs), the members created in it (items) and its data.
VARIABLES
    rx_pc,              \* position of do_run: idle, check, poll, handle, returned, raised
    evt,                \* _state_thread_evt.is_set()
    since_keep,         \* now - keep_alive, in poll timeouts, up to the grace period
    since_evt,          \* history: time since evt was set, likewise
    inbox,              \* per sender: the messages waiting on its pull socket
    ready,              \* sockets_ready still to be handled in this iteration
    h5file,             \* content of the run's file
    running_sats,       \* H5DataReceiverWriter.running_sats
    run_number,         \* H5DataReceiverWriter.run_number
    fs,                 \* files on disk: path -> ordinal of the run that wrote it (0: pre-existing)
    output_path,        \* self.output_path
    file_name_pattern,  \* self.file_name_pattern: the placeholders it holds
    last,               \* history: the message handled last, whether its
                        \* sender had no group (late), whether _write_data
                        \* left file and senders as they were (same), and
                        \* whether handling it raised
    narrived,           \* history: number of messages that arrived
    nruns               \* history: number of runs started

rxvars == <<rx_pc, evt, since_keep, since_evt, inbox, ready, h5file,
            running_sats, run_number, fs, output_path, file_name_pattern,
            last, narrived, nruns>>

MaxMsgs == 2
MaxRuns == 1

\* Sequence numbers of the DAT messages that arrive.
SeqInputs == {1, 2}

Senders == {"P", "Q"}
RxName == "h5_data_receiver"

Grace == 4
PollTimeout == 250

\* f with key k set to v.
Ext(f, k, v) == [x \in DOMAIN f \cup {k} |-> IF x = k THEN v ELSE f[x]]
\* dict.update: f with the entries of g.
Update(f, g) == [x \in DOMAIN f \cup DOMAIN g |-> IF x \in DOMAIN g THEN g[x] ELSE f[x]]

Node(kind, attrs, items, data) ==
    [kind |-> kind, attrs |-> attrs, items |-> items, data |-> data]
NoMembers == [k \in {} |-> Node("group", NoMeta, NoMeta, PyNone)]
EmptyGroup == [subs |-> NoMembers, dsets |-> NoMembers]
EmptyFile == [k \in {} |-> EmptyGroup]

\* _add_version: the receiver's own group with the version data set.
AddVersion(f) ==
    Ext(f, RxName,
        [subs |-> Ext(NoMembers, "constellation_version",
                      Node("dataset", NoMeta, NoMeta, PyStr(1))),
         dsets |-> NoMembers])

\* grp = ...create_group("BOR" / "EOR"); grp.update(item.meta): h5py's
\* Group.update is the MutableMapping one, grp[key] = value for every entry,
\* which creates members of the group and leaves grp.attrs empty.  Then
\* "if item.payload:" the data set "payload" is created in the group.
MetaGroup(item) ==
    Node("group", NoMeta,
         IF Truthy(item.payload) THEN Ext(item.meta, "payload", item.payload)
         ELSE item.meta,
         PyNone)

\* np.frombuffer(item.payload, ...) needs a bytes-like object.
FromBufferOk(p) == p.t = "bin"

\* dset.attrs["CLASS"] = "DETECTOR_DATA"; dset.attrs.update(item.meta)
DataSet(item) ==
    Node("dataset", Update(Ext(NoMeta, "CLASS", PyStr(13)), item.meta),
         NoMeta, item.payload)

Title(run, seq) == <<run, seq>>

\* grp = h5file[item.name] of the DAT branch is wrapped in try / except
\* KeyError: a sender without a group (a late joiner) gets one.
LateJoinerCaught_No == FALSE
LateJoinerCaught == TRUE

\* _write_data with a BOR branch that does not look for the group.
WriteData_EveryBor(f, sats, run, item) ==
    LET nm == item.name IN
    IF item.msgtype = BOR
    THEN [file |-> Ext(f, nm, [subs |-> Ext(NoMembers, "BOR", MetaGroup(item)),
                               dsets |-> NoMembers]),
          sats |-> Append(sats, nm), raised |-> FALSE]
    ELSE IF item.msgtype = DAT
    THEN LET late == nm \notin DOMAIN f
             f1 == IF late THEN Ext(f, nm, EmptyGroup) ELSE f
             s1 == IF late THEN Append(sats, nm) ELSE sats
             title == Title(run, item.sequence_number)
         IN  IF late /\ ~LateJoinerCaught
             THEN [file |-> f, sats |-> sats, raised |-> TRUE]
             ELSE IF ~FromBufferOk(item.payload) \/ title \in DOMAIN f1[nm].dsets
             THEN [file |-> f1, sats |-> s1, raised |-> TRUE]
             ELSE [file |-> [f1 EXCEPT ![nm].dsets = Ext(@, title, DataSet(item))],
                   sats |-> s1, raised |-> FALSE]
    ELSE IF item.msgtype = EOR
    THEN IF nm \notin DOMAIN f \/ "EOR" \in DOMAIN f[nm].subs
         THEN [file |-> f, sats |-> sats, raised |-> TRUE]
         ELSE [file |-> [f EXCEPT ![nm].subs = Ext(@, "EOR", MetaGroup(item))],
               sats |-> sats, raised |-> FALSE]
    ELSE [file |-> f, sats |-> sats, raised |-> FALSE]

\* _write_data: the file and running_sats after the call, and whether it
\* raised (what it did before raising stays done).
WriteData(f, sats, run, item) ==
    LET nm == item.name IN
    IF item.msgtype = BOR /\ nm \notin DOMAIN f
    THEN [file |-> Ext(f, nm, [subs |-> Ext(NoMembers, "BOR", MetaGroup(item)),
                               dsets |-> NoMembers]),
          sats |-> Append(sats, nm), raised |-> FALSE]
    ELSE IF item.msgtype = DAT
    THEN LET late == nm \notin DOMAIN f
             f1 == IF late THEN Ext(f, nm, EmptyGroup) ELSE f
             s1 == IF late THEN Append(sats, nm) ELSE sats
             title == Title(run, item.sequence_number)
         IN  IF late /\ ~LateJoinerCaught
             THEN [file |-> f, sats |-> sats, raised |-> TRUE]
             ELSE IF ~FromBufferOk(item.payload) \/ title \in DOMAIN f1[nm].dsets
             THEN [file |-> f1, sats |-> s1, raised |-> TRUE]
             ELSE [file |-> [f1 EXCEPT ![nm].dsets = Ext(@, title, DataSet(item))],
                   sats |-> s1, raised |-> FALSE]
    ELSE IF item.msgtype = EOR
    THEN IF nm \notin DOMAIN f \/ "EOR" \in DOMAIN f[nm].subs
         THEN [file |-> f, sats |-> sats, raised |-> TRUE]
         ELSE [file |-> [f EXCEPT ![nm].subs = Ext(@, "EOR", MetaGroup(item))],
               sats |-> sats, raised |-> FALSE]
    ELSE [file |-> f, sats |-> sats, raised |-> FALSE]

\* _open_file: the file name from the pattern; a placeholder the pattern
\* does not hold leaves -1.  The date is the second in which the run starts:
\* 0 stands for an earlier session, k for the start of the k-th run.
FormatName(pattern, run, date) ==
    [run |-> IF pattern.run THEN run ELSE -1,
     date |-> IF pattern.date THEN date ELSE -1]
\* os.path.isfile(filename): the bare file name, relative to the working
\* directory "."
IsFileChecked(files, filename) == <<".", filename>> \in DOMAIN files
\* h5py.File(directory / filename, "w")
OpenedPath(dir, filename) == <<dir, filename>>

\* while not evt.is_set() and (now - keep_alive).total_seconds() < 4
WithinGrace(t) == t * PollTimeout < Grace * 1000
LoopCondition == ~evt /\ WithinGrace(since_keep)
\* One poll timeout later; beyond the grace period the time is not counted.
Elapse(t) == IF WithinGrace(t) THEN t + 1 ELSE t

\* What the messages on the sockets may be: anything a DataTransmitter named
\* s dispatches, and two messages that do not decode.
\* A DAT message carries a payload np.frombuffer takes, under either
\* sequence number, or none; BOR comes without payload, EOR with.  The two
\* that do not decode come on the socket of the sender their header names.
BadType == [protocol |-> "CDTP", sender |-> "P", msgtype |-> 3,
            seqno |-> 0, meta |-> NoMeta]
BadHeader == [protocol |-> "CMDP", sender |-> "P", msgtype |-> DAT,
              seqno |-> 0, meta |-> NoMeta]
Arrivals(s) ==
    {DispatchFrames(s, BOR, SendStartSeq(0), PyNone, RunMeta)}
    \cup {DispatchFrames(s, DAT, q, PyBin(1), NoMeta) : q \in SeqInputs}
    \cup {DispatchFrames(s, DAT, 1, PyNone, RunMeta)}
    \cup {DispatchFrames(s, EOR, SendEndSeq(2), PyBin(1), RunMeta)}
    \cup (IF s = BadType.sender THEN {<<BadType>>, <<BadHeader>>} ELSE {})

NoLast == [item |-> NoMessage, bad |-> FALSE, late |-> FALSE,
           same |-> TRUE, raised |-> FALSE]

DefaultPattern == [run |-> TRUE, date |-> TRUE]
RunPattern == [run |-> TRUE, date |-> FALSE]

\* The configuration do_initializing leaves and the files found on disk:
\* the defaults and an empty disk; a pattern without the date, with the
\* file of run 1 left in the output directory by an earlier session; the
\* same with the working directory as output directory.
Configs ==
    {[output_path |-> "data", file_name_pattern |-> DefaultPattern, files |-> {}],
     [output_path |-> "data", file_name_pattern |-> RunPattern,
      files |-> {<<"data", FormatName(RunPattern, 1, 0)>>}],
     [output_path |-> ".", file_name_pattern |-> RunPattern,
      files |-> {<<".", FormatName(RunPattern, 1, 0)>>}]}

InitRx ==
    /\ rx_pc = "idle"
    /\ evt = FALSE
    /\ since_keep = 0
    /\ since_evt = 0
    /\ inbox = [s \in Senders |-> <<>>]
    /\ ready = {}
    /\ h5file = EmptyFile
    /\ running_sats = <<>>
    /\ run_number = 0
    /\ \E c \in Configs :
        /\ output_path = c.output_path
        /\ file_name_pattern = c.file_name_pattern
        /\ fs = [p \in c.files |-> 0]
    /\ last = NoLast
    /\ narrived = 0
    /\ nruns = 0

\* start: do_run(run_number) up to its loop.  A fresh event comes with
\* every run.
rx_start ==
    \E r \in 1..MaxRuns :
        /\ rx_pc \in {"idle", "returned"}
        /\ nruns < MaxRuns
        /\ nruns' = nruns + 1
        /\ run_number' = r
        /\ evt' = FALSE
        /\ last' = NoLast
        /\ since_keep' = 0
        /\ since_evt' = 0
        /\ LET filename == FormatName(file_name_pattern, r, nruns') IN
           IF IsFileChecked(fs, filename)
           THEN /\ rx_pc' = "raised"
                /\ UNCHANGED <<fs, h5file>>
           ELSE /\ fs' = Ext(fs, OpenedPath(output_path, filename), nruns')
                /\ h5file' = AddVersion(EmptyFile)
                /\ rx_pc' = "check"
        /\ UNCHANGED <<inbox, ready, running_sats, output_path,
                       file_name_pattern, narrived>>

\* The while condition; when it fails, the finally clause and the return.
rx_check ==
    /\ rx_pc = "check"
    /\ IF LoopCondition
       THEN rx_pc' = "poll" /\ UNCHANGED running_sats
       ELSE rx_pc' = "returned" /\ running_sats' = <<>>
    /\ UNCHANGED <<evt, since_keep, since_evt, inbox, ready, h5file,
                   run_number, fs, output_path, file_name_pattern, last,
                   narrived, nruns>>

\* keep_alive refresh and self.poller.poll(timeout=250): the sockets with a
\* message, or none after the timeout.
rx_poll ==
    /\ rx_pc = "poll"
    /\ LET rdy == {s \in Senders : inbox[s] # <<>>}
           refreshed == IF ~evt THEN 0 ELSE since_keep
       IN  IF rdy # {}
           THEN /\ ready' = rdy
                /\ rx_pc' = "handle"
                /\ since_keep' = refreshed
                /\ UNCHANGED since_evt
           ELSE /\ ready' = {}
                /\ rx_pc' = "check"
                /\ since_keep' = Elapse(refreshed)
                /\ since_evt' = IF evt THEN Elapse(since_evt) ELSE since_evt
    /\ UNCHANGED <<evt, inbox, h5file, running_sats, run_number, fs,
                   output_path, file_name_pattern, last, narrived, nruns>>

\* One pass of "for socket in sockets_ready": recv_multipart, decode,
\* _write_data.  An exception leaves do_run through the finally clause.
rx_handle ==
    \E s \in ready :
        /\ rx_pc = "handle"
        /\ inbox' = [inbox EXCEPT ![s] = Tail(@)]
        /\ ready' = ready \ {s}
        /\ LET binmsg == Head(inbox[s]).frames IN
           IF ~DecodeOk(binmsg)
           THEN /\ rx_pc' = "raised"
                /\ running_sats' = <<>>
                /\ last' = [item |-> NoMessage, bad |-> TRUE, late |-> FALSE,
                            same |-> TRUE, raised |-> TRUE]
                /\ UNCHANGED h5file
           ELSE LET item == Decode(binmsg)
                    w == WriteData(h5file, running_sats, run_number, item)
                IN  /\ h5file' = w.file
                    /\ last' = [item |-> item, bad |-> FALSE,
                                late |-> item.name \notin DOMAIN h5file,
                                same |-> /\ w.file = h5file
                                         /\ w.sats = running_sats,
                                raised |-> w.raised]
                    /\ IF w.raised
                       THEN /\ rx_pc' = "raised"
                            /\ running_sats' = <<>>
                       ELSE /\ rx_pc' = IF ready \ {s} = {} THEN "check" ELSE "handle"
                            /\ running_sats' = w.sats
        /\ UNCHANGED <<evt, since_keep, since_evt, run_number, fs,
                       output_path, file_name_pattern, narrived, nruns>>

\* stop / interrupt: the cancellation event is set while do_run runs.
rx_stop ==
    /\ rx_pc \in {"check", "poll", "handle"}
    /\ ~evt
    /\ evt' = TRUE
    /\ since_evt' = 0
    /\ UNCHANGED <<rx_pc, since_keep, inbox, ready, h5file, running_sats,
                   run_number, fs, output_path, file_name_pattern, last,
                   narrived, nruns>>

\* A message arrives on the pull socket of sender s; grace records whether
\* it arrives after the event was set and less than 4 s later.  Arrivals are
\* taken where they are seen: at a poll, or after do_run has returned (a
\* message that arrives earlier waits on the socket until the next poll).
rx_arrive ==
    \E s \in Senders :
        \E m \in Arrivals(s) :
            /\ rx_pc \in {"poll", "returned"}
            /\ narrived < MaxMsgs
            /\ narrived' = narrived + 1
            /\ inbox' = [inbox EXCEPT ![s] = Append(@,
                   [frames |-> m,
                    grace |-> evt /\ WithinGrace(since_evt)])]
            /\ UNCHANGED <<rx_pc, evt, since_keep, since_evt, ready, h5file,
                           running_sats, run_number, fs, output_path,
                           file_name_pattern, last, nruns>>

\* ------------------------------------------------- decode, called alone
\* DataTransmitter.decode applied to a multipart message as it may come off
\* a socket: a header frame and up to MaxFrames payload frames.
VARIABLES
    dec_vals,    \* the values whose packed forms are the payload frames
    dec_in,      \* binmsg, the argument of the last decode call
    dec_out,     \* the CDTPMessage it returned
    dec_pc       \* "none" before any call, then "returned" or "raised"

decvars == <<dec_vals, dec_in, dec_out, dec_pc>>

MaxFrames == 3
FrameValues == {PyNone, PyInt(0), PyInt(1), PyBin(1), PyStr(1)}
FrameSeqs == UNION {[1..n -> FrameValues] : n \in 0..MaxFrames}
DecHeaders ==
    {HeaderEncode("tx", t, 1, RunMeta) : t \in CDTPMessageIdentifier}
    \cup {BadType, BadHeader}

InitDec ==
    /\ dec_vals = <<>>
    /\ dec_in = <<>>
    /\ dec_out = NoMessage
    /\ dec_pc = "none"

decode ==
    \E h \in DecHeaders, vs \in FrameSeqs :
        LET binmsg == <<h>> \o [i \in 1..Len(vs) |-> Pack(vs[i])] IN
        /\ dec_pc = "none"
        /\ dec_vals' = vs
        /\ dec_in' = binmsg
        /\ IF DecodeOk(binmsg)
           THEN dec_out' = Decode(binmsg) /\ dec_pc' = "returned"
           ELSE dec_out' = NoMessage /\ dec_pc' = "raised"

\* ------------------------------------------------------ lifecycle states
\* The state machine of the satellite (fsm.py, satellite.py): the states,
\* the verbs admissible from each and the stable state a transitional state
\* is paired with.
StableStates == {"NEW", "INIT", "ORBIT", "RUN", "SAFE", "ERROR", "DEAD"}
TransitionalStates ==
    {"initializing", "launching", "landing", "starting", "stopping",
     "interrupting", "reconfiguring"}
LifecycleVerbs ==
    {"initialize", "launch", "land", "start", "stop", "reconfigure",
     "interrupt", "recover", "failure"}

\* The transitional state (ERROR for failure) a verb leads to.
Goal(v) ==
    CASE v = "initialize" -> "initializing"
      [] v = "launch" -> "launching"
      [] v = "land" -> "landing"
      [] v = "start" -> "starting"
      [] v = "reconfigure" -> "reconfiguring"
      [] v = "interrupt" -> "interrupting"
      [] v = "stop" -> "stopping"
      [] v = "recover" -> "interrupting"
      [] v = "failure" -> "ERROR"

\* The lifecycle verbs admissible from a stable state.
StableVerbs(s) ==
    CASE s = "NEW" -> {"initialize"}
      [] s = "INIT" -> {"initialize", "launch"}
      [] s = "ORBIT" -> {"reconfigure", "land", "start", "interrupt"}
      [] s = "RUN" -> {"stop", "interrupt", "failure"}
      [] s = "SAFE" -> {"recover", "initialize"}
      [] s = "ERROR" -> {"initialize"}
      [] s = "DEAD" -> {}

\* failure is admissible from any state, and alone from a transitional one.
Admissible(s) ==
    IF s \in TransitionalStates THEN {"failure"}
    ELSE IF s = "DEAD" THEN {}
    ELSE StableVerbs(s) \cup {"failure"}

\* The state verb v leads to from state s, "none" if it is not admissible.
Target(s, v) == IF v \in Admissible(s) THEN Goal(v) ELSE "none"

\* The stable state in which a transitional state ends.
PairedTable ==
    [initializing |-> "INIT", launching |-> "ORBIT", landing |-> "INIT",
     starting |-> "RUN", stopping |-> "ORBIT", interrupting |-> "SAFE",
     reconfiguring |-> "ORBIT"]
Paired(t) == PairedTable[t]

\* ---------------------------------------------------- command receiver
VARIABLES
    state,           \* fsm.current_state
    task_queue,      \* self.task_queue, oldest first
    worker,          \* the task _run_task_handler is executing, or NoTask
    com_thread_evt,  \* self._com_thread_evt.is_set()
    cmd_alive,       \* the _recv_cmds thread has not left its loop
    exch,            \* history: the request served by the last step, what
                     \* it met and its reply; NoExch after any other step
    ntasks,          \* history: number of tasks put on the queue so far
    started,         \* history: the tasks in the order the worker took them
    ndone,           \* history: number of tasks the worker has finished
    script,          \* history: commands of the standard sequence issued
                     \* so far, each after the one before had completed;
                     \* -1 once anything else has touched the lifecycle
    path             \* history: the states gone through while on script

cmdvars == <<state, task_queue, worker, com_thread_evt, cmd_alive, exch,
             ntasks, started, ndone, script, path>>

MaxTasks == 3

\* Messages are sequences of words.
Words(e) == <<e>>
\* repr(e) as a payload.
PyRepr(e) == [t |-> "str", n |-> 1, items |-> Words(e)]
\* An object msgpack cannot pack.
PyObj == [t |-> "obj", n |-> 1]

Task(kind, name, id) == [kind |-> kind, name |-> name, id |-> id]
NoTask == Task("none", "", 0)

\* What a guard or a handler does when it is called.
Outcome(kind, exc, res, payload, meta) ==
    [kind |-> kind, exc |-> exc, res |-> res, payload |-> payload, meta |-> meta]
Returns(res, payload, meta) == Outcome("triple", "", res, payload, meta)
Raises(e) == Outcome("raise", e, <<>>, PyNone, NoMeta)
NotATriple == Outcome("value", "", <<>>, PyNone, NoMeta)
NotCalled == Outcome("none", "", <<>>, PyNone, NoMeta)

Exceptions ==
    {"AttributeError", "NotImplementedError", "TransitionNotAllowed",
     "TypeError", "ValueError", "RuntimeError"}
\* A user-registered command "custom" stands for any handler and any guard.
HandlerOutcomes ==
    {Returns(<<"ok">>, PyNone, NoMeta), Returns(<<"ok">>, PyBin(1), RunMeta),
     Returns(<<>>, PyNone, NoMeta), Returns(<<"ok">>, PyObj, NoMeta)}
    \cup {Raises(e) : e \in Exceptions}
    \cup {NotATriple}
\* What the guard does: there is none, it returns true or false, or raises.
GuardOutcomes == {"absent", "true", "false", "AttributeError", "KeyError"}
\* The guards after which the handler is called, and the others.
GuardsPassed == {"absent", "true", "AttributeError"}

Request(msg_verb, msg, payload, guard, handler) ==
    [msg_verb |-> msg_verb, msg |-> msg, payload |-> payload,
     guard |-> guard, handler |-> handler]
Requests ==
    {Request("REQUEST", v, PyNone, "absent", NotCalled) :
        v \in LifecycleVerbs \cup {"shutdown", "get_name", "bogus"}}
    \cup {Request("SUCCESS", "get_name", PyNone, "absent", NotCalled)}
    \cup {Request("REQUEST", "get_current", p, "absent", NotCalled) :
            p \in {PyNone, PyList(1)}}
    \cup {Request("REQUEST", "custom", PyNone, "absent", h) :
            h \in HandlerOutcomes}
    \cup {Request("REQUEST", "custom", PyNone, g, h) :
            g \in GuardsPassed \ {"absent"},
            h \in {Returns(<<"ok">>, PyNone, NoMeta), Raises("RuntimeError")}}
    \cup {Request("REQUEST", "custom", PyNone, g, NotCalled) :
            g \in GuardOutcomes \ GuardsPassed}

\* self._cmds: the methods marked cscp_requestable.
Cmds == LifecycleVerbs \cup {"shutdown", "get_name", "get_current", "custom"}

Reply(verb, msg, payload, meta) ==
    [verb |-> verb, msg |-> msg, payload |-> payload, meta |-> meta]
NoReply == Reply("none", <<>>, PyNone, NoMeta)

\* Example_Satellite._get_current_is_allowed
GetCurrentAllowed_Always(st) == TRUE
GetCurrentAllowed(st) == st \in {"ORBIT", "RUN"}

\* getattr(self, f"_{req.msg}_is_allowed")(req): what the guard of the
\* command does; "absent" when there is no such method.
GuardResult(req, st) ==
    CASE req.msg = "get_current" ->
            IF GetCurrentAllowed(st) THEN "true" ELSE "false"
      [] req.msg = "custom" -> req.guard
      [] OTHER -> "absent"

\* getattr(self, req.msg)(req): what the handler returns or raises, and the
\* lifecycle state and the task queue it leaves.  id is the number of the
\* task it may put on the queue.
Handler(req, st, q, id) ==
    LET t == Target(st, req.msg) IN
    CASE req.msg \in LifecycleVerbs /\ t = "none" ->
            [out |-> Raises("TransitionNotAllowed"), state |-> st, queue |-> q]
      [] req.msg = "failure" /\ t # "none" ->
            [out |-> Returns(<<t>>, PyNone, NoMeta), state |-> t, queue |-> q]
      [] req.msg \in LifecycleVerbs \ {"failure"} /\ t # "none" ->
            [out |-> Returns(<<t>>, PyNone, NoMeta), state |-> t,
             queue |-> Append(q, Task("transition", t, id))]
      [] req.msg = "shutdown" ->
            [out |-> Returns(<<"sat", "queued", "for", "reentry">>, PyNone, NoMeta),
             state |-> st, queue |-> Append(q, Task("reentry", "", id))]
      [] req.msg = "get_name" ->
            [out |-> Returns(<<"sat">>, PyNone, NoMeta), state |-> st, queue |-> q]
      [] req.msg = "get_current" ->
            [out |-> IF req.payload.t = "list" /\ req.payload.n > 0
                     THEN Returns(<<"Device", "current", "is">>, PyNone, NoMeta)
                     ELSE Raises("TypeError"),
             state |-> st, queue |-> q]
      [] req.msg = "custom" ->
            [out |-> req.handler, state |-> st, queue |-> q]

\* The except clauses of _recv_cmds: the reply to an exception of the handler.
ExceptReply_WrongArgument(e) ==
    Reply("INCOMPLETE", <<"Wrong", "argument", ":">> \o Words(e), PyNone, NoMeta)
ExceptReply_Generic(e) ==
    Reply("INVALID", <<"Exception", ":">> \o Words(e), PyRepr(e), NoMeta)
ExceptReply(e) ==
    CASE e \in {"AttributeError", "NotImplementedError"} ->
            Reply("NOTIMPLEMENTED", <<"WrongImplementation">>, PyRepr(e), NoMeta)
      [] e = "TransitionNotAllowed" ->
            Reply("INVALID", <<"Transition", "not", "allowed", ":">> \o Words(e),
                  PyNone, NoMeta)
      [] e \in {"TypeError", "ValueError"} ->
            Reply("INCOMPLETE", <<"Wrong", "argument", ":">> \o Words(e),
                  PyNone, NoMeta)
      [] OTHER ->
            Reply("INVALID", <<"Exception", ":">> \o Words(e), PyRepr(e), NoMeta)

\* send_reply raises TypeError for a payload that cannot be packed.
SendReplyOk(payload) == payload.t # "obj"

\* The reply to what the handler returned: "res, payload, meta = ..." raises
\* for anything but a triple; an empty res is answered INCOMPLETE.
ReturnReply_Nothing(o) ==
    Reply("INCOMPLETE", <<"Command", "returned", "nothing">>, PyNone, NoMeta)
ReturnReply_Always(o) == Reply("SUCCESS", o.res, o.payload, o.meta)
ReturnReply(o) ==
    CASE o.kind = "value" -> ExceptReply("TypeError")
      [] o.kind = "triple" /\ o.res = <<>> ->
            Reply("INCOMPLETE", <<"Command", "returned", "nothing">>, PyNone, NoMeta)
      [] o.kind = "triple" /\ o.res # <<>> /\ SendReplyOk(o.payload) ->
            Reply("SUCCESS", o.res, o.payload, o.meta)
      [] OTHER -> Reply("ERROR", Words("TypeError"), PyNone, NoMeta)

\* One pass of the loop of _recv_cmds with request req waiting: the reply
\* sent, the state and the queue after it, what the handler did if it was
\* called, and whether an exception left the loop.
Serve(req, st, q, id) ==
    LET g == GuardResult(req, st)
        h == Handler(req, st, q, id)
        skip(r, died) == [reply |-> r, state |-> st, queue |-> q,
                          guard |-> "absent", out |-> NotCalled, died |-> died]
    IN
    IF req.msg_verb # "REQUEST"
    THEN skip(Reply("INVALID", <<"Received", "malformed", "request">>,
                    PyNone, NoMeta), FALSE)
    ELSE IF req.msg \notin Cmds
    THEN skip(Reply("UNKNOWN", <<"Unknown", "command", ":", req.msg>>,
                    PyNone, NoMeta), FALSE)
    ELSE IF g = "false"
    THEN [skip(Reply("INVALID", <<"Not", "allowed", ":", req.msg_verb>>,
                     PyNone, NoMeta), FALSE) EXCEPT !.guard = g]
    ELSE IF g \notin GuardsPassed
    THEN [skip(NoReply, TRUE) EXCEPT !.guard = g]
    ELSE [reply |-> IF h.out.kind = "raise" THEN ExceptReply(h.out.exc)
                    ELSE ReturnReply(h.out),
          state |-> h.state, queue |-> h.queue, guard |-> g,
          out |-> h.out, died |-> FALSE]

\* queue.Queue.get: the oldest task.
QueueGet_Lifo(q) == [task |-> q[Len(q)], rest |-> SubSeq(q, 1, Len(q) - 1)]
QueueGet(q) == [task |-> Head(q), rest |-> Tail(q)]

\* The standard sequence of commands and the states it leads through.
Script == <<"initialize", "launch", "start", "stop", "land">>
Expected ==
    <<"NEW", "initializing", "INIT", "launching", "ORBIT", "starting", "RUN",
      "stopping", "ORBIT", "landing", "INIT">>

NoExch ==
    [msg_verb |-> "", msg |-> "", guard |-> "absent", out |-> NotCalled,
     reply |-> NoReply, pre_state |-> "NEW", post_state |-> "NEW",
     pre_queue |-> 0, post_queue |-> 0, died |-> FALSE]

InitCmd ==
    /\ state = "NEW"
    /\ task_queue = <<>>
    /\ worker = NoTask
    /\ com_thread_evt = FALSE
    /\ cmd_alive = TRUE
    /\ exch = NoExch
    /\ ntasks = 0
    /\ started = <<>>
    /\ ndone = 0
    /\ script = 0
    /\ path = <<"NEW">>

\* _recv_cmds: one pass of the loop that finds a request.
recv_cmds ==
    \E req \in Requests :
        LET r == Serve(req, state, task_queue, ntasks + 1)
            queued == Len(r.queue) > Len(task_queue)
            lifecycle == /\ req.msg_verb = "REQUEST"
                         /\ req.msg \in LifecycleVerbs \cup {"shutdown"}
            onscript == /\ script >= 0
                        /\ script < Len(Script)
                        /\ req.msg = Script[script + 1]
                        /\ state \in StableStates
                        /\ task_queue = <<>>
                        /\ worker = NoTask
        IN  /\ cmd_alive
            /\ ~com_thread_evt
            /\ queued => (ntasks < MaxTasks \/ onscript)
            /\ state' = r.state
            /\ task_queue' = r.queue
            /\ ntasks' = IF queued THEN ntasks + 1 ELSE ntasks
            /\ cmd_alive' = ~r.died
            /\ exch' = [msg_verb |-> req.msg_verb, msg |-> req.msg,
                        guard |-> r.guard, out |-> r.out, reply |-> r.reply,
                        pre_state |-> state, post_state |-> r.state,
                        pre_queue |-> Len(task_queue), post_queue |-> Len(r.queue),
                        died |-> r.died]
            /\ IF ~lifecycle
               THEN UNCHANGED <<script, path>>
               ELSE IF onscript
               THEN /\ script' = script + 1
                    /\ path' = IF r.state # state THEN Append(path, r.state)
                               ELSE path
               ELSE script' = -1 /\ path' = <<>>
            /\ UNCHANGED <<worker, com_thread_evt, started, ndone>>

\* _recv_cmds: the loop condition fails once the event is set.
recv_cmds_exit ==
    /\ cmd_alive
    /\ com_thread_evt
    /\ cmd_alive' = FALSE
    /\ exch' = NoExch
    /\ UNCHANGED <<state, task_queue, worker, com_thread_evt, ntasks,
                   started, ndone, script, path>>

\* _run_task_handler: task = self.task_queue.get(...)
task_get ==
    /\ worker = NoTask
    /\ task_queue # <<>>
    /\ ~com_thread_evt
    /\ worker' = QueueGet(task_queue).task
    /\ task_queue' = QueueGet(task_queue).rest
    /\ started' = Append(started, QueueGet(task_queue).task.id)
    /\ exch' = NoExch
    /\ UNCHANGED <<state, com_thread_evt, cmd_alive, ntasks, ndone,
                   script, path>>

\* _run_task_handler: callback(*args).  A transition task runs do_<name>
\* and moves to the paired stable state, to ERROR if the handler raises; the
\* reentry task ends the satellite's threads.
task_run ==
    \E ok \in BOOLEAN :
        LET next == CASE worker.kind = "reentry" -> "DEAD"
                      [] worker.kind = "transition" /\ ~ok -> "ERROR"
                      [] worker.kind = "transition" /\ ok /\ state = worker.name ->
                            Paired(worker.name)
                      [] OTHER -> state
        IN  /\ worker # NoTask
            /\ state' = next
            /\ com_thread_evt' = (worker.kind = "reentry")
            /\ worker' = NoTask
            /\ ndone' = ndone + 1
            /\ IF script < 0
               THEN UNCHANGED <<script, path>>
               ELSE IF worker.kind = "transition" /\ ok
               THEN /\ script' = script
                    /\ path' = IF next # state THEN Append(path, next) ELSE path
               ELSE script' = -1 /\ path' = <<>>
            /\ exch' = NoExch
            /\ UNCHANGED <<task_queue, cmd_alive, ntasks, started>>

\* ------------------------------------------------------ heartbeat sender
\* HeartbeatSender._run_heartbeat next to the thread that changes the
\* lifecycle state.  Time passes in the sleeps of the loop.
VARIABLES
    current_state_value,  \* fsm.current_state_value
    transitioned,         \* fsm.transitioned
    fsm_pc,               \* "idle", or "flag": state changed, flag not yet set
    hb_pc,                \* position of the heartbeat thread in its loop
    hb_local_state,       \* the local variable state of _run_heartbeat
    since_last,           \* sleeps since last = datetime.now()
    published,            \* history: the state the last heartbeat carried
    unannounced,          \* history: the state has changed and no heartbeat
                          \* has carried the current state since
    nchanges              \* history: number of state changes so far

hbvars == <<current_state_value, transitioned, fsm_pc, hb_pc, hb_local_state,
            since_last, published, unannounced, nchanges>>

MaxChanges == 3
heartbeat_period == 1000
SleepMs == 100

\* (datetime.now() - last).total_seconds() > self.heartbeat_period / 1000
TimerExpired(n) == n * SleepMs > heartbeat_period
\* if (...) or self.fsm.transitioned
HeartbeatDue(n, flag) == TimerExpired(n) \/ flag

\* The states one transition away from s.
Successors(s) ==
    ({Target(s, v) : v \in LifecycleVerbs} \ {"none"})
    \cup (IF s \in TransitionalStates THEN {Paired(s)} ELSE {})

InitHb ==
    /\ current_state_value = "NEW"
    /\ transitioned = FALSE
    /\ fsm_pc = "idle"
    /\ hb_pc = "test"
    /\ hb_local_state = "NEW"
    /\ since_last = 0
    /\ published = "none"
    /\ unannounced = FALSE
    /\ nchanges = 0

\* The state machine moves to another state ...
fsm_change ==
    \E s \in Successors(current_state_value) :
        /\ fsm_pc = "idle"
        /\ nchanges < MaxChanges
        /\ nchanges' = nchanges + 1
        /\ current_state_value' = s
        /\ unannounced' = TRUE
        /\ fsm_pc' = "flag"
        /\ UNCHANGED <<transitioned, hb_pc, hb_local_state, since_last,
                       published>>

\* ... and then marks the change: transitioned = True.
fsm_flag ==
    /\ fsm_pc = "flag"
    /\ transitioned' = TRUE
    /\ fsm_pc' = "idle"
    /\ UNCHANGED <<current_state_value, hb_pc, hb_local_state, since_last,
                   published, unannounced, nchanges>>

\* The if of the loop; last = datetime.now() when it holds.
hb_test ==
    /\ hb_pc = "test"
    /\ IF HeartbeatDue(since_last, transitioned)
       THEN hb_pc' = "read" /\ since_last' = 0
       ELSE hb_pc' = "sleep" /\ UNCHANGED since_last
    /\ UNCHANGED <<current_state_value, transitioned, fsm_pc, hb_local_state,
                   published, unannounced, nchanges>>

\* state = self.fsm.current_state_value
hb_read ==
    /\ hb_pc = "read"
    /\ hb_local_state' = current_state_value
    /\ hb_pc' = "send"
    /\ UNCHANGED <<current_state_value, transitioned, fsm_pc, since_last,
                   published, unannounced, nchanges>>

\* self._hb_tm.send(state.value, ...)
hb_send ==
    /\ hb_pc = "send"
    /\ published' = hb_local_state
    /\ unannounced' = (unannounced /\ hb_local_state # current_state_value)
    /\ hb_pc' = "clear"
    /\ UNCHANGED <<current_state_value, transitioned, fsm_pc, hb_local_state,
                   since_last, nchanges>>

\* self.fsm.transitioned = False
hb_clear ==
    /\ hb_pc = "clear"
    /\ transitioned' = FALSE
    /\ hb_pc' = "test"
    /\ UNCHANGED <<current_state_value, fsm_pc, hb_local_state, since_last,
                   published, unannounced, nchanges>>

\* time.sleep(0.1); beyond the period the time is not counted.
hb_sleep ==
    /\ hb_pc = "sleep"
    /\ since_last' = IF TimerExpired(since_last) THEN since_last
                     ELSE since_last + 1
    /\ hb_pc' = "test"
    /\ UNCHANGED <<current_state_value, transitioned, fsm_pc, hb_local_state,
                   published, unannounced, nchanges>>

\* ----------------------------------------------------- heartbeat checker
\* The receiver side of the heartbeat protocol: for every tracked peer the
\* time since it was last seen, the interval its last heartbeat promised
\* and the number of consecutive misses.  Time passes in ticks; the checker
\* looks at every peer after every tick.
VARIABLES
    local_state,        \* the lifecycle state of the satellite that checks
    peer_alive,         \* peer -> the peer's process still sends heartbeats
    last_seen_age,      \* peer -> ticks since last_seen was set
    promised_interval,  \* peer -> interval of the peer's last heartbeat
    misses,             \* peer -> consecutive misses
    peer_failed,        \* peer -> the peer has been declared failed
    silent,             \* history: peer -> ticks since its last heartbeat
    was_late,           \* history: peer -> a deadline of the peer has passed
    at_failure,         \* history: peer -> local state before and after the
                        \* peer's failure was handled
    nlocal              \* history: number of local state changes so far

chkvars == <<local_state, peer_alive, last_seen_age, promised_interval,
             misses, peer_failed, silent, was_late, at_failure, nlocal>>

MaxLocal == 1

Peers == {"A", "B"}
Intervals == {1, 2}
MissThreshold == 3
AllStates == StableStates \cup TransitionalStates

\* now - last_seen > 1.5 * promised_interval
Missed(age, interval) == 2 * age > 3 * interval
\* Failed after N consecutive misses.
Failed_OneMore(n) == n > MissThreshold
Failed(n) == n >= MissThreshold
\* Failure of a peer: SAFE if currently ORBIT or RUN.
Demote(s) == IF s \in {"ORBIT", "RUN"} THEN "SAFE" ELSE s

NotFailedYet == [before |-> "none", after |-> "none"]

InitChk ==
    /\ local_state = "NEW"
    /\ peer_alive = [p \in Peers |-> TRUE]
    /\ last_seen_age = [p \in Peers |-> 0]
    /\ promised_interval = [p \in Peers |-> 1]
    /\ misses = [p \in Peers |-> 0]
    /\ peer_failed = [p \in Peers |-> FALSE]
    /\ silent = [p \in Peers |-> 0]
    /\ was_late = [p \in Peers |-> FALSE]
    /\ at_failure = [p \in Peers |-> NotFailedYet]
    /\ nlocal = 0

\* The satellite is taken to another lifecycle state.
chk_local ==
    \E s \in AllStates \ {local_state} :
        /\ nlocal < MaxLocal
        /\ nlocal' = nlocal + 1
        /\ local_state' = s
        /\ UNCHANGED <<peer_alive, last_seen_age, promised_interval, misses,
                       peer_failed, silent, was_late, at_failure>>

\* The process of a peer is killed: no more heartbeats from it.
chk_kill ==
    \E p \in Peers :
        /\ peer_alive[p]
        /\ peer_alive' = [peer_alive EXCEPT ![p] = FALSE]
        /\ UNCHANGED <<local_state, last_seen_age, promised_interval, misses,
                       peer_failed, silent, was_late, at_failure, nlocal>>

\* A heartbeat of a tracked peer arrives, in time or late.
chk_beat ==
    \E p \in Peers, i \in Intervals :
        /\ peer_alive[p] /\ ~peer_failed[p]
        /\ last_seen_age[p] > 0
        /\ last_seen_age' = [last_seen_age EXCEPT ![p] = 0]
        /\ promised_interval' = [promised_interval EXCEPT ![p] = i]
        /\ misses' = [misses EXCEPT ![p] = 0]
        /\ silent' = [silent EXCEPT ![p] = 0]
        /\ UNCHANGED <<local_state, peer_alive, peer_failed, was_late,
                       at_failure, nlocal>>

\* The checker finds the deadline of a peer passed: one more miss, and the
\* failure of the peer when the threshold is reached.
chk_miss ==
    \E p \in Peers :
        /\ ~peer_failed[p]
        /\ Missed(last_seen_age[p], promised_interval[p])
        /\ misses' = [misses EXCEPT ![p] = @ + 1]
        /\ last_seen_age' = [last_seen_age EXCEPT ![p] = 0]
        /\ was_late' = [was_late EXCEPT ![p] = TRUE]
        /\ IF Failed(misses[p] + 1)
           THEN /\ peer_failed' = [peer_failed EXCEPT ![p] = TRUE]
                /\ local_state' = Demote(local_state)
                /\ at_failure' = [at_failure EXCEPT ![p] =
                                    [before |-> local_state,
                                     after |-> Demote(local_state)]]
           ELSE UNCHANGED <<peer_failed, local_state, at_failure>>
        /\ UNCHANGED <<peer_alive, promised_interval, silent, nlocal>>

\* One tick of time, once the checker has looked at every peer.
chk_tick ==
    /\ \E p \in Peers : ~peer_failed[p]
    /\ \A p \in Peers :
           peer_failed[p] \/ ~Missed(last_seen_age[p], promised_interval[p])
    /\ last_seen_age' = [p \in Peers |->
           IF peer_failed[p] THEN last_seen_age[p] ELSE last_seen_age[p] + 1]
    /\ silent' = [p \in Peers |->
           IF peer_failed[p] THEN silent[p] ELSE silent[p] + 1]
    /\ UNCHANGED <<local_state, peer_alive, promised_interval, misses,
                   peer_failed, was_late, at_failure, nlocal>>

\* ------------------------------------------------- monitoring publisher
\* The PUB socket of MonitoringSender: log records arrive from any thread
\* through ZeroMQSocketLogHandler.enqueue, metrics from the metric sender
\* thread through send_metric; both end in CMDPTransmitter._dispatch, which
\* sends three frames.  logging.Handler.handle holds the handler's lock
\* around emit, so enqueue runs under handler_lock; send_metric takes no lock.
VARIABLES
    mon_socket,    \* the frames sent on the socket so far: [msg, part]
    handler_lock,  \* the thread inside the log handler, or "none"
    mon_pc,        \* thread -> "idle", or the frame _dispatch sends next
    mon_msg,       \* thread -> number of the message the thread dispatches
    mon_sent       \* number of messages begun so far

monvars == <<mon_socket, handler_lock, mon_pc, mon_msg, mon_sent>>

MaxMon == 3

LogThreads == {"log1", "log2"}
MetricThread == "metric_sender"
MonThreads == LogThreads \cup {MetricThread}
\* The frames of _dispatch in the order they are sent.
DispatchParts == <<"topic", "header", "payload">>
NextPart(part) == IF part = "topic" THEN "header"
                  ELSE IF part = "header" THEN "payload" ELSE "idle"

InitMon ==
    /\ mon_socket = <<>>
    /\ handler_lock = "none"
    /\ mon_pc = [t \in MonThreads |-> "idle"]
    /\ mon_msg = [t \in MonThreads |-> 0]
    /\ mon_sent = 0

\* A thread logs: Handler.handle acquires the lock, enqueue calls
\* self.queue.send(record), which is CMDPTransmitter.send -> send_log.
enqueue ==
    \E t \in LogThreads :
        /\ mon_pc[t] = "idle"
        /\ handler_lock = "none"
        /\ mon_sent < MaxMon
        /\ handler_lock' = t
        /\ mon_sent' = mon_sent + 1
        /\ mon_msg' = [mon_msg EXCEPT ![t] = mon_sent + 1]
        /\ mon_pc' = [mon_pc EXCEPT ![t] = DispatchParts[1]]
        /\ UNCHANGED mon_socket

\* _send_metrics: self.send_metric(param["function"]()).
send_metric ==
    /\ mon_pc[MetricThread] = "idle"
    /\ mon_sent < MaxMon
    /\ mon_sent' = mon_sent + 1
    /\ mon_msg' = [mon_msg EXCEPT ![MetricThread] = mon_sent + 1]
    /\ mon_pc' = [mon_pc EXCEPT ![MetricThread] = DispatchParts[1]]
    /\ UNCHANGED <<mon_socket, handler_lock>>

\* One of the three sends of _dispatch; after the last one the call returns
\* and a log thread releases the handler's lock.
dispatch ==
    \E t \in MonThreads :
        /\ mon_pc[t] # "idle"
        /\ mon_socket' = Append(mon_socket,
                                [msg |-> mon_msg[t], part |-> mon_pc[t]])
        /\ mon_pc' = [mon_pc EXCEPT ![t] = NextPart(mon_pc[t])]
        /\ handler_lock' = IF NextPart(mon_pc[t]) = "idle" /\ handler_lock = t
                           THEN "none" ELSE handler_lock
        /\ UNCHANGED <<mon_msg, mon_sent>>

\* --------------------------------------------------- monitoring listener
\* MonitoringListener: the main thread runs receive_metrics, the task
\* handler thread runs the discovery callbacks (_add_satellite,
\* _remove_satellite) and _monitor_shutdown.  A thread's position names the
\* call on the poller or socket it is inside.
VARIABLES
    poller_lock,      \* _poller_lock: the thread holding it, or "none"
    poll_set,         \* the sockets registered with self.poller
    metric_sockets,   \* keys of self._metric_sockets
    closed_sockets,   \* metric sockets that have been closed
    rm_pc,            \* main thread: "idle", "poll" (inside poller.poll),
                      \* "done" (loop left)
    th_pc,            \* task handler thread: "idle", "register", "shutdown_lock",
                      \* "lock", "unregister", "close", "shutdown"
    th_uuid,          \* the uuid the task handler thread works on
    receiver_shutdown,\* _metrics_receiver_shutdown
    lis_ops           \* history: number of callbacks begun so far

lisvars == <<poller_lock, poll_set, metric_sockets, closed_sockets, rm_pc,
             th_pc, th_uuid, receiver_shutdown, lis_ops>>

MaxOps == 3

Uuids == {"u1", "u2"}
\* The calls that change the poll-set or close one of its sockets.
PollSetChanges == {"register", "unregister", "close", "shutdown"}

InitLis ==
    /\ poller_lock = "none"
    /\ poll_set = {}
    /\ metric_sockets = {}
    /\ closed_sockets = {}
    /\ rm_pc = "idle"
    /\ th_pc = "idle"
    /\ th_uuid = "none"
    /\ receiver_shutdown = FALSE
    /\ lis_ops = 0

\* receive_metrics: while not shutdown: with self._poller_lock: poll(...)
receive_metrics_poll ==
    /\ rm_pc = "idle"
    /\ IF receiver_shutdown
       THEN rm_pc' = "done" /\ UNCHANGED poller_lock
       ELSE /\ poller_lock = "none"
            /\ poller_lock' = "main"
            /\ rm_pc' = "poll"
    /\ UNCHANGED <<poll_set, metric_sockets, closed_sockets, th_pc, th_uuid,
                   receiver_shutdown, lis_ops>>

\* The poll returns, the ready sockets are read, the lock is released.
receive_metrics_release ==
    /\ rm_pc = "poll"
    /\ poller_lock' = "none"
    /\ rm_pc' = "idle"
    /\ UNCHANGED <<poll_set, metric_sockets, closed_sockets, th_pc, th_uuid,
                   receiver_shutdown, lis_ops>>

\* _add_satellite up to self._metric_sockets[uuid] = socket.
add_satellite ==
    \E u \in Uuids :
        /\ th_pc = "idle"
        /\ lis_ops < MaxOps
        /\ lis_ops' = lis_ops + 1
        /\ metric_sockets' = metric_sockets \cup {u}
        /\ closed_sockets' = closed_sockets \ {u}
        /\ th_uuid' = u
        /\ th_pc' = "register"
        /\ UNCHANGED <<poller_lock, poll_set, rm_pc, receiver_shutdown>>

\* self.poller.register(socket, zmq.POLLIN)
add_satellite_register ==
    /\ th_pc = "register"
    /\ poll_set' = poll_set \cup {th_uuid}
    /\ th_pc' = "idle"
    /\ UNCHANGED <<poller_lock, metric_sockets, closed_sockets, rm_pc, th_uuid,
                   receiver_shutdown, lis_ops>>

\* _remove_satellite: the log listener is stopped; next: with _poller_lock.
remove_satellite ==
    \E u \in Uuids :
        /\ th_pc = "idle"
        /\ lis_ops < MaxOps
        /\ lis_ops' = lis_ops + 1
        /\ th_uuid' = u
        /\ th_pc' = "lock"
        /\ UNCHANGED <<poller_lock, poll_set, metric_sockets, closed_sockets,
                       rm_pc, receiver_shutdown>>

\* with self._poller_lock: socket = self._metric_sockets.pop(uuid); a
\* KeyError leaves the with block and is passed over.
remove_satellite_pop ==
    /\ th_pc = "lock"
    /\ poller_lock = "none"
    /\ IF th_uuid \in metric_sockets
       THEN /\ poller_lock' = "task"
            /\ metric_sockets' = metric_sockets \ {th_uuid}
            /\ th_pc' = "unregister"
       ELSE /\ th_pc' = "idle"
            /\ UNCHANGED <<poller_lock, metric_sockets>>
    /\ UNCHANGED <<poll_set, closed_sockets, rm_pc, th_uuid,
                   receiver_shutdown, lis_ops>>

\* self.poller.unregister(socket)
remove_satellite_unregister ==
    /\ th_pc = "unregister"
    /\ poll_set' = poll_set \ {th_uuid}
    /\ th_pc' = "close"
    /\ UNCHANGED <<poller_lock, metric_sockets, closed_sockets, rm_pc, th_uuid,
                   receiver_shutdown, lis_ops>>

\* socket.close(), end of the with block.
remove_satellite_close ==
    /\ th_pc = "close"
    /\ closed_sockets' = closed_sockets \cup {th_uuid}
    /\ poller_lock' = "none"
    /\ th_pc' = "idle"
    /\ UNCHANGED <<poll_set, metric_sockets, rm_pc, th_uuid,
                   receiver_shutdown, lis_ops>>

\* _monitor_shutdown: the event is set, then the lock is awaited.
monitor_shutdown ==
    /\ th_pc = "idle"
    /\ ~receiver_shutdown
    /\ receiver_shutdown' = TRUE
    /\ th_pc' = "shutdown_lock"
    /\ UNCHANGED <<poller_lock, poll_set, metric_sockets, closed_sockets,
                   rm_pc, th_uuid, lis_ops>>

\* with self._poller_lock: the for loop is entered.
monitor_shutdown_lock ==
    /\ th_pc = "shutdown_lock"
    /\ poller_lock = "none"
    /\ poller_lock' = "task"
    /\ th_pc' = "shutdown"
    /\ UNCHANGED <<poll_set, metric_sockets, closed_sockets, rm_pc, th_uuid,
                   receiver_shutdown, lis_ops>>

\* Every socket is unregistered and closed; self._metric_sockets = {}.
monitor_shutdown_close ==
    /\ th_pc = "shutdown"
    /\ poll_set' = poll_set \ metric_sockets
    /\ closed_sockets' = closed_sockets \cup metric_sockets
    /\ metric_sockets' = {}
    /\ poller_lock' = "none"
    /\ th_pc' = "idle"
    /\ UNCHANGED <<rm_pc, th_uuid, receiver_shutdown, lis_ops>>

\* ------------------------------------------------------- metric sender
\* MonitoringSender._send_metrics: the loop over the scheduled metrics.
\* Time is counted in sleeps of the loop (0.1 s); a callback returns a
\* metric or raises, and so does the send.
VARIABLES
    met_pc,           \* "while", "for" (at metric met_i), "call", "sleep",
                      \* "done"
    met_i,            \* index of the metric the for loop is at
    last_update,      \* metric -> sleeps since last_update[metric] was set,
                      \* -1: no such key
    met_evt,          \* _com_thread_evt.is_set()
    metrics_sent,     \* metric -> number of metrics published
    met_errors,       \* metric -> number of errors logged
    since_invoked,    \* history: metric -> sleeps since its callback was
                      \* last invoked, -1: never
    retried_early,    \* history: a callback was invoked again before its
                      \* interval had elapsed
    met_calls         \* history: number of callbacks invoked so far

metvars == <<met_pc, met_i, last_update, met_evt, metrics_sent, met_errors,
             since_invoked, retried_early, met_calls>>

MaxCalls == 4

\* self._metrics_callbacks in iteration order, with the intervals in sleeps.
MetricNames == <<"m1", "m2">>
MetricSet == {MetricNames[i] : i \in 1..Len(MetricNames)}
MetricInterval == [m \in MetricSet |-> IF m = "m1" THEN 1 ELSE 2]
CallbackOutcomes == {"metric", "raise", "send_raises"}

\* try: last = last_update[metric]; if (now - last) > interval: update = True
\* except KeyError: update = True
UpdateDue(age, interval) == age = -1 \/ age > interval

\* try: self.send_metric(param["function"]()) except Exception: log.error
\* What one call leaves behind: a metric published, an error logged, and
\* whether the loop goes on.
CallResult_Propagate(o) ==
    [sent |-> IF o = "metric" THEN 1 ELSE 0,
     logged |-> 0,
     goes_on |-> o = "metric"]
CallResult(o) ==
    [sent |-> IF o = "metric" THEN 1 ELSE 0,
     logged |-> IF o = "metric" THEN 0 ELSE 1,
     goes_on |-> TRUE]

Tick(age) == IF age = -1 THEN -1 ELSE age + 1

InitMet ==
    /\ met_pc = "while"
    /\ met_i = 1
    /\ last_update = [m \in MetricSet |-> -1]
    /\ met_evt = FALSE
    /\ metrics_sent = [m \in MetricSet |-> 0]
    /\ met_errors = [m \in MetricSet |-> 0]
    /\ since_invoked = [m \in MetricSet |-> -1]
    /\ retried_early = FALSE
    /\ met_calls = 0

\* while self._com_thread_evt and not self._com_thread_evt.is_set():
met_while ==
    /\ met_pc = "while"
    /\ met_pc' = IF met_evt THEN "done" ELSE "for"
    /\ met_i' = 1
    /\ UNCHANGED <<last_update, met_evt, metrics_sent, met_errors,
                   since_invoked, retried_early, met_calls>>

\* One pass of the for loop up to "if update:".
met_for ==
    /\ met_pc = "for"
    /\ IF met_i > Len(MetricNames)
       THEN met_pc' = "sleep" /\ UNCHANGED met_i
       ELSE IF UpdateDue(last_update[MetricNames[met_i]],
                         MetricInterval[MetricNames[met_i]])
            THEN met_pc' = "call" /\ UNCHANGED met_i
            ELSE met_pc' = "for" /\ met_i' = met_i + 1
    /\ UNCHANGED <<last_update, met_evt, metrics_sent, met_errors,
                   since_invoked, retried_early, met_calls>>

\* The callback is invoked and its metric sent; last_update[metric] = now.
met_call ==
    \E o \in CallbackOutcomes :
        LET m == MetricNames[met_i]
            r == CallResult(o) IN
        /\ met_pc = "call"
        /\ met_calls < MaxCalls
        /\ met_calls' = met_calls + 1
        /\ retried_early' = (retried_early \/
               (since_invoked[m] # -1 /\ since_invoked[m] <= MetricInterval[m]))
        /\ since_invoked' = [since_invoked EXCEPT ![m] = 0]
        /\ metrics_sent' = [metrics_sent EXCEPT ![m] = @ + r.sent]
        /\ met_errors' = [met_errors EXCEPT ![m] = @ + r.logged]
        /\ IF r.goes_on
           THEN /\ last_update' = [last_update EXCEPT ![m] = 0]
                /\ met_pc' = "for"
                /\ met_i' = met_i + 1
           ELSE /\ met_pc' = "done"
                /\ UNCHANGED <<last_update, met_i>>
        /\ UNCHANGED met_evt

\* time.sleep(0.1)
met_sleep ==
    /\ met_pc = "sleep"
    /\ last_update' = [m \in MetricSet |-> Tick(last_update[m])]
    /\ since_invoked' = [m \in MetricSet |-> Tick(since_invoked[m])]
    /\ met_pc' = "while"
    /\ UNCHANGED <<met_i, met_evt, metrics_sent, met_errors, retried_early,
                   met_calls>>

\* The communication threads are told to stop.
met_stop ==
    /\ ~met_evt
    /\ met_pc # "done"
    /\ met_evt' = TRUE
    /\ UNCHANGED <<met_pc, met_i, last_update, metrics_sent, met_errors,
                   since_invoked, retried_early, met_calls>>

\* ---------------------------------------------------------- configuration
\* Configuration: the dictionary and the set of requested keys.  A
\* dictionary is a function from its keys to values.
VARIABLES
    cfg_pc,          \* "new": not constructed yet, "built", "updated"
    cfg_config,      \* self._config
    requested_keys,  \* self._requested_keys
    cfg_result,      \* what the last lookup returned or raised
    provided,        \* history: keys of the mapping given to __init__
    looked_up,       \* history: keys looked up so far
    lookups          \* history: number of lookups so far

cfgvars == <<cfg_pc, cfg_config, requested_keys, cfg_result, provided,
             looked_up, lookups>>

MaxLookups == 3

ConfigKeys == {"voltage", "current", "sample_period"}
ConfigValues == {PyNone, PyInt(5)}
EmptyDict == [k \in {} |-> PyNone]
\* dict.setdefault(key, default)
DictSetDefault(d, key, default) ==
    IF key \in DOMAIN d THEN d
    ELSE [k \in DOMAIN d \cup {key} |-> IF k = key THEN default ELSE d[k]]

NoResult == [raised |-> "none", value |-> PyNone]

\* __getitem__: self._requested_keys.add(key); return self._config[key]
GetItem_RecordOnSuccess(config, requested, key) ==
    IF key \in DOMAIN config
    THEN [requested |-> requested \cup {key}, config |-> config,
          result |-> [raised |-> "none", value |-> config[key]]]
    ELSE [requested |-> requested, config |-> config,
          result |-> [raised |-> "KeyError", value |-> PyNone]]
GetItem(config, requested, key) ==
    [requested |-> requested \cup {key},
     config |-> config,
     result |-> IF key \in DOMAIN config
                THEN [raised |-> "none", value |-> config[key]]
                ELSE [raised |-> "KeyError", value |-> PyNone]]

\* setdefault: self._requested_keys.add(key);
\* return self._config.setdefault(key, default)
SetDefault(config, requested, key, default) ==
    [requested |-> requested \cup {key},
     config |-> DictSetDefault(config, key, default),
     result |-> [raised |-> "none",
                 value |-> DictSetDefault(config, key, default)[key]]]

\* get_unused_keys
GetUnusedKeys(config, requested) == DOMAIN config \ requested

\* has_unused_values: not self._requested_keys == set(self._config.keys())
HasUnusedValues(config, requested) == requested # DOMAIN config

\* get_applied: {k: self._config[k] for k in self._requested_keys}
GetApplied(config, requested) ==
    IF requested \subseteq DOMAIN config
    THEN [raised |-> "none", value |-> [k \in requested |-> config[k]]]
    ELSE [raised |-> "KeyError", value |-> EmptyDict]

\* update: self._config.update(config); every key of config is discarded
\* from self._requested_keys
ConfigUpdate_KeepRequested(config, requested, d) ==
    [config |-> Update(config, d), requested |-> requested]
ConfigUpdate(config, requested, d) ==
    [config |-> Update(config, d), requested |-> requested \ DOMAIN d]

\* The dictionaries handed to update.
UpdateDicts == UNION {[S -> ConfigValues] : S \in SUBSET ConfigKeys}

InitCfg ==
    /\ cfg_pc = "new"
    /\ cfg_config = EmptyDict
    /\ requested_keys = {}
    /\ cfg_result = NoResult
    /\ provided = {}
    /\ looked_up = {}
    /\ lookups = 0

\* Configuration(config) for a mapping config.
cfg_init ==
    \E S \in SUBSET ConfigKeys :
        /\ cfg_pc = "new"
        /\ cfg_config' = [k \in S |-> PyInt(1)]
        /\ requested_keys' = {}
        /\ provided' = S
        /\ cfg_pc' = "built"
        /\ UNCHANGED <<cfg_result, looked_up, lookups>>

\* config[key]
cfg_getitem ==
    \E key \in ConfigKeys :
        LET r == GetItem(cfg_config, requested_keys, key) IN
        /\ cfg_pc = "built"
        /\ lookups < MaxLookups
        /\ lookups' = lookups + 1
        /\ looked_up' = looked_up \cup {key}
        /\ cfg_config' = r.config
        /\ requested_keys' = r.requested
        /\ cfg_result' = r.result
        /\ UNCHANGED <<cfg_pc, provided>>

\* config.setdefault(key, default)
cfg_setdefault ==
    \E key \in ConfigKeys, default \in ConfigValues :
        LET r == SetDefault(cfg_config, requested_keys, key, default) IN
        /\ cfg_pc = "built"
        /\ lookups < MaxLookups
        /\ lookups' = lookups + 1
        /\ looked_up' = looked_up \cup {key}
        /\ cfg_config' = r.config
        /\ requested_keys' = r.requested
        /\ cfg_result' = r.result
        /\ UNCHANGED <<cfg_pc, provided>>

\* config.update(d), once, after the lookups.
cfg_update_with(d) ==
    LET r == ConfigUpdate(cfg_config, requested_keys, d) IN
    /\ cfg_pc = "built"
    /\ cfg_pc' = "updated"
    /\ cfg_config' = r.config
    /\ requested_keys' = r.requested
    /\ UNCHANGED <<cfg_result, provided, looked_up, lookups>>

cfg_update == \E d \in UpdateDicts : cfg_update_with(d)

\* ------------------------------------------------------------------ CHIRP
\* CHIRPMessage.pack / unpack and CHIRPBeaconTransmitter.listen.  Bytes are
\* sequences of integers 0..255, a UUID is its 16 bytes, enum members are
\* named by strings and carried on the wire by their values.
VARIABLES
    chirp_pc,      \* "idle", "sent" (a datagram is on the wire), "garbled", "done"
    chirp_msg,     \* the message that was packed
    chirp_buf,     \* the datagram on the wire
    chirp_out,     \* result of unpack on the datagram
    filter_group,  \* CHIRPBeaconTransmitter._filter_group
    listen_ret     \* what listen returned or raised

chirpvars == <<chirp_pc, chirp_msg, chirp_buf, chirp_out, filter_group,
               listen_ret>>

CHIRP_HEADER == <<67, 72, 73, 82, 80, 1>>
CHIRPServiceIdentifier ==
    [NONE |-> 0, CONTROL |-> 1, HEARTBEAT |-> 2, MONITORING |-> 3, DATA |-> 4]
CHIRPMessageType == [NONE |-> 0, REQUEST |-> 1, OFFER |-> 2, DEPART |-> 3]

\* Enum(value): the member with that value, "ValueError" if there is none.
EnumOf(enum, value) ==
    IF \E k \in DOMAIN enum : enum[k] = value
    THEN CHOOSE k \in DOMAIN enum : enum[k] = value
    ELSE "ValueError"

\* 256 to the power k.
Pow256(k) == IF k = 0 THEN 1 ELSE IF k = 1 THEN 256 ELSE 65536

\* int.to_bytes(length, byteorder="big")
ToBytes_Little(n, length) ==
    [i \in 1..length |-> (n \div Pow256(i - 1)) % 256]
ToBytes(n, length) ==
    [i \in 1..length |-> (n \div Pow256(length - i)) % 256]

\* int.from_bytes(b, byteorder="big")
RECURSIVE FromBytes(_)
FromBytes(b) ==
    IF b = <<>> THEN 0
    ELSE FromBytes(SubSeq(b, 1, Len(b) - 1)) * 256 + b[Len(b)]

\* b[lo:hi] of Python.
Slice(b, lo, hi) ==
    IF lo >= Len(b) \/ hi <= lo THEN <<>>
    ELSE SubSeq(b, lo + 1, IF hi > Len(b) THEN Len(b) ELSE hi)

\* UUIDs of hosts and groups: 16 bytes each.
UuidBytes(k) == [i \in 1..16 |-> (k * i + 3 * k) % 256]
ChirpUuids == {UuidBytes(0), UuidBytes(1), UuidBytes(77)}
ChirpPorts == {0, 255, 256, 23999, 65535}
ChirpMessage(msgtype, group_uuid, host_uuid, serviceid, port) ==
    [msgtype |-> msgtype, group_uuid |-> group_uuid, host_uuid |-> host_uuid,
     serviceid |-> serviceid, port |-> port]
ChirpMessages ==
    {ChirpMessage(t, g, h, s, p) :
        t \in {"REQUEST", "OFFER", "DEPART"}, g \in ChirpUuids,
        h \in ChirpUuids,
        s \in {"CONTROL", "HEARTBEAT", "MONITORING", "DATA"},
        p \in ChirpPorts}
\* CHIRPMessage(): the defaults of __init__.
ChirpDefault == ChirpMessage("NONE", UuidBytes(0), UuidBytes(0), "NONE", 0)

\* CHIRPMessage.pack
pack(m) ==
    CHIRP_HEADER
    \o ToBytes(CHIRPMessageType[m.msgtype], 1)
    \o m.group_uuid
    \o m.host_uuid
    \o ToBytes(CHIRPServiceIdentifier[m.serviceid], 1)
    \o ToBytes(m.port, 2)

\* CHIRPMessage.unpack: the message, or what it raises.
unpack_Shifted(msg) ==
    IF Len(msg) # 42 \/ Slice(msg, 0, 6) # CHIRP_HEADER
    THEN [raised |-> "RuntimeError", msg |-> ChirpDefault]
    ELSE IF "ValueError" \in {EnumOf(CHIRPMessageType, FromBytes(Slice(msg, 6, 7))),
                              EnumOf(CHIRPServiceIdentifier,
                                     FromBytes(Slice(msg, 39, 40)))}
    THEN [raised |-> "ValueError", msg |-> ChirpDefault]
    ELSE [raised |-> "none",
          msg |-> ChirpMessage(
              EnumOf(CHIRPMessageType, FromBytes(Slice(msg, 6, 7))),
              Slice(msg, 7, 23),
              Slice(msg, 23, 39),
              EnumOf(CHIRPServiceIdentifier, FromBytes(Slice(msg, 39, 40))),
              FromBytes(Slice(msg, 41, 42)))]
unpack(msg) ==
    IF Len(msg) # 42 \/ Slice(msg, 0, 6) # CHIRP_HEADER
    THEN [raised |-> "RuntimeError", msg |-> ChirpDefault]
    ELSE IF "ValueError" \in {EnumOf(CHIRPMessageType, FromBytes(Slice(msg, 6, 7))),
                              EnumOf(CHIRPServiceIdentifier,
                                     FromBytes(Slice(msg, 39, 40)))}
    THEN [raised |-> "ValueError", msg |-> ChirpDefault]
    ELSE [raised |-> "none",
          msg |-> ChirpMessage(
              EnumOf(CHIRPMessageType, FromBytes(Slice(msg, 6, 7))),
              Slice(msg, 7, 23),
              Slice(msg, 23, 39),
              EnumOf(CHIRPServiceIdentifier, FromBytes(Slice(msg, 39, 40))),
              FromBytes(Slice(msg, 40, 42)))]

\* The listener's own identity: get_uuid(name), get_uuid(group).
ListenerHost == UuidBytes(1)
ListenerGroup == UuidBytes(77)

\* CHIRPBeaconTransmitter.listen on a received datagram: the message
\* returned ("msg"), None ("none"), or the RuntimeError raised ("raise").
listen_NoFilter(buf, host_uuid, group_uuid, filter) ==
    IF unpack(buf).raised # "none"
    THEN [kind |-> "raise", msg |-> ChirpDefault]
    ELSE IF host_uuid = unpack(buf).msg.host_uuid
    THEN [kind |-> "none", msg |-> ChirpDefault]
    ELSE [kind |-> "msg", msg |-> unpack(buf).msg]
listen(buf, host_uuid, group_uuid, filter) ==
    IF unpack(buf).raised # "none"
    THEN [kind |-> "raise", msg |-> ChirpDefault]
    ELSE IF host_uuid = unpack(buf).msg.host_uuid
    THEN [kind |-> "none", msg |-> ChirpDefault]
    ELSE IF filter /\ group_uuid # unpack(buf).msg.group_uuid
    THEN [kind |-> "none", msg |-> ChirpDefault]
    ELSE [kind |-> "msg", msg |-> unpack(buf).msg]

\* Datagrams that are not CHIRP messages, made from a packed one.
Malformed(buf) ==
    IF Len(buf) # 42 THEN {}
    ELSE {SubSeq(buf, 1, 41), <<0>> \o SubSeq(buf, 2, 42),
          [buf EXCEPT ![7] = 9]}

NotListened == [kind |-> "idle", msg |-> ChirpDefault]
NotUnpacked == [raised |-> "idle", msg |-> ChirpDefault]

InitChirp ==
    /\ chirp_pc = "idle"
    /\ chirp_msg = ChirpDefault
    /\ chirp_buf = <<>>
    /\ chirp_out = NotUnpacked
    /\ filter_group = TRUE
    /\ listen_ret = NotListened

\* The filter setter.
chirp_filter ==
    \E val \in BOOLEAN :
        /\ chirp_pc = "idle"
        /\ val # filter_group
        /\ filter_group' = val
        /\ UNCHANGED <<chirp_pc, chirp_msg, chirp_buf, chirp_out, listen_ret>>

\* A host broadcasts: msg.pack() goes onto the wire.
chirp_pack ==
    \E m \in ChirpMessages :
        /\ chirp_pc = "idle"
        /\ chirp_msg' = m
        /\ chirp_buf' = pack(m)
        /\ chirp_pc' = "sent"
        /\ UNCHANGED <<chirp_out, filter_group, listen_ret>>

\* Something else than a CHIRP message arrives on the port.
chirp_malformed ==
    \E b \in Malformed(chirp_buf) :
        /\ chirp_pc = "sent"
        /\ chirp_msg.port = 0
        /\ chirp_buf' = b
        /\ chirp_pc' = "garbled"
        /\ UNCHANGED <<chirp_msg, chirp_out, filter_group, listen_ret>>

\* msg.unpack(buf) and listen() on the datagram.
chirp_listen ==
    /\ chirp_pc \in {"sent", "garbled"}
    /\ chirp_out' = unpack(chirp_buf)
    /\ listen_ret' = listen(chirp_buf, ListenerHost, ListenerGroup,
                            filter_group)
    /\ chirp_pc' = "done"
    /\ UNCHANGED <<chirp_msg, chirp_buf, filter_group>>

\* ------------------------------------------------------------ run cycles
\* H5DataReceiverWriter over several start/stop cycles: the run number and
\* the files.  The start command hands its payload to do_run as the
\* run_number argument; a start without payload hands None.  The run
\* number is a Python value here, the date the ordinal of the run.
VARIABLES
    cyc_pc,           \* "new", "idle" (ORBIT), "running", "raised"
    cyc_run_number,   \* H5DataReceiverWriter.run_number
    cyc_pattern,      \* self.file_name_pattern
    cyc_output_path,  \* self.output_path
    cyc_fs,           \* files on disk: path -> ordinal of the run
    cyc_started,      \* history: number of runs started
    cyc_stopped,      \* history: number of start/stop cycles completed
    cyc_bare          \* history: no start so far carried a run number

cycvars == <<cyc_pc, cyc_run_number, cyc_pattern, cyc_output_path, cyc_fs,
             cyc_started, cyc_stopped, cyc_bare>>

MaxCycles == 3

\* The payload of a start command: none, or a run number.
StartPayloads == {PyNone} \cup {PyInt(k) : k \in 1..MaxCycles}
NoFiles == [p \in {} |-> 0]

InitCyc ==
    /\ cyc_pc = "new"
    /\ cyc_run_number = PyInt(0)
    /\ cyc_pattern = DefaultPattern
    /\ cyc_output_path = "data"
    /\ cyc_fs = NoFiles
    /\ cyc_started = 0
    /\ cyc_stopped = 0
    /\ cyc_bare = TRUE

\* do_initializing with a configuration, then launch.
cyc_initialize ==
    \E pattern \in {DefaultPattern, RunPattern}, dir \in {"data", "."} :
        /\ cyc_pc = "new"
        /\ cyc_pattern' = pattern
        /\ cyc_output_path' = dir
        /\ cyc_pc' = "idle"
        /\ UNCHANGED <<cyc_run_number, cyc_fs, cyc_started, cyc_stopped,
                       cyc_bare>>

\* start: do_run(payload): self.run_number = run_number; _open_file().
cyc_start ==
    \E payload \in StartPayloads :
        LET filename == FormatName(cyc_pattern, payload, cyc_started + 1) IN
        /\ cyc_pc = "idle"
        /\ cyc_started < MaxCycles
        /\ cyc_started' = cyc_started + 1
        /\ cyc_bare' = (cyc_bare /\ payload = PyNone)
        /\ cyc_run_number' = payload
        /\ IF IsFileChecked(cyc_fs, filename)
           THEN cyc_pc' = "raised" /\ UNCHANGED cyc_fs
           ELSE /\ cyc_fs' = Ext(cyc_fs, OpenedPath(cyc_output_path, filename),
                                 cyc_started + 1)
                /\ cyc_pc' = "running"
        /\ UNCHANGED <<cyc_pattern, cyc_output_path, cyc_stopped>>

\* stop: do_run returns.
cyc_stop ==
    /\ cyc_pc = "running"
    /\ cyc_stopped' = cyc_stopped + 1
    /\ cyc_pc' = "idle"
    /\ UNCHANGED <<cyc_run_number, cyc_pattern, cyc_output_path, cyc_fs,
                   cyc_started, cyc_bare>>

\* ---------------------------------------------------------- data sources
\* DataReceiver: the pool of data sources (_pull_interfaces), the pull
\* sockets and the poller, under the discovery callback for DATA services
\* and the lifecycle.  A dictionary key is the UUID object or its string:
\* [kind |-> "UUID" or "str", id |-> the host].
VARIABLES
    src_state,        \* lifecycle state of the receiver
    pull_interfaces,  \* keys of self._pull_interfaces
    pull_sockets,     \* keys of self._pull_sockets
    src_poller,       \* self.poller is not None
    src_registered,   \* keys of the sockets registered with the poller
    src_closed,       \* keys of the sockets that were closed
    src_raised,       \* what the last callback or transition raised
    src_last,         \* history: the last callback: [alive, host]
    src_added,        \* history: hosts whose service was added and has not
                      \* departed since
    src_ops           \* history: number of callbacks so far

srcvars == <<src_state, pull_interfaces, pull_sockets, src_poller,
             src_registered, src_closed, src_raised, src_last, src_added,
             src_ops>>

MaxCallbacks == 3

Hosts == {"h1", "h2"}
UuidKey(h) == [kind |-> "UUID", id |-> h]
\* str(service.host_uuid)
StrKey(h) == [kind |-> "str", id |-> h]

\* get_data_sources: the hosts listed in the reply.
GetDataSources(interfaces) == {k.id : k \in interfaces}

\* if self.fsm.current_state.id in [ORBIT, RUN]
LateOffer(st) == st \in {"ORBIT", "RUN"}

\* _remove_socket(uuid) on the sockets, the poller and the closed sockets:
\* pop raises KeyError when there is no such key.
RemoveSocket(sockets, registered, closed, poller, key) ==
    IF key \notin sockets
    THEN [raised |-> "KeyError", sockets |-> sockets,
          registered |-> registered, closed |-> closed]
    ELSE [raised |-> "none", sockets |-> sockets \ {key},
          registered |-> IF poller THEN registered \ {key} ELSE registered,
          closed |-> closed \cup {key}]

\* _remove_sender: uuid = str(service.host_uuid);
\* self._pull_interfaces.pop(uuid); try: self._remove_socket(uuid)
\* except KeyError: pass
RemoveSender(interfaces, sockets, registered, closed, poller, h) ==
    IF StrKey(h) \notin interfaces
    THEN [raised |-> "KeyError", interfaces |-> interfaces,
          sockets |-> sockets, registered |-> registered, closed |-> closed]
    ELSE LET r == RemoveSocket(sockets, registered, closed, poller, StrKey(h))
         IN [raised |-> "none", interfaces |-> interfaces \ {StrKey(h)},
             sockets |-> r.sockets, registered |-> r.registered,
             closed |-> r.closed]

NoCallback == [alive |-> TRUE, host |-> "none"]

InitSrc ==
    /\ src_state = "NEW"
    /\ pull_interfaces = {}
    /\ pull_sockets = {}
    /\ src_poller = FALSE
    /\ src_registered = {}
    /\ src_closed = {}
    /\ src_raised = "none"
    /\ src_last = NoCallback
    /\ src_added = {}
    /\ src_ops = 0

\* _add_sender_callback with service.alive: _add_sender.
add_sender ==
    \E h \in Hosts :
        /\ src_ops < MaxCallbacks
        /\ src_state # "ERROR"
        /\ src_ops' = src_ops + 1
        /\ src_last' = [alive |-> TRUE, host |-> h]
        /\ src_added' = src_added \cup {h}
        /\ pull_interfaces' = pull_interfaces \cup {UuidKey(h)}
        /\ IF LateOffer(src_state)
           THEN /\ pull_sockets' = pull_sockets \cup {StrKey(h)}
                /\ src_registered' = src_registered \cup {StrKey(h)}
                /\ src_closed' = src_closed \ {StrKey(h)}
           ELSE UNCHANGED <<pull_sockets, src_registered, src_closed>>
        /\ src_raised' = "none"
        /\ UNCHANGED <<src_state, src_poller>>

\* _add_sender_callback with not service.alive: _remove_sender, for a
\* service that was added before.
remove_sender ==
    \E h \in src_added :
        LET r == RemoveSender(pull_interfaces, pull_sockets, src_registered,
                              src_closed, src_poller, h) IN
        /\ src_ops < MaxCallbacks
        /\ src_ops' = src_ops + 1
        /\ src_last' = [alive |-> FALSE, host |-> h]
        /\ src_added' = src_added \ {h}
        /\ pull_interfaces' = r.interfaces
        /\ pull_sockets' = r.sockets
        /\ src_registered' = r.registered
        /\ src_closed' = r.closed
        /\ src_raised' = r.raised
        /\ UNCHANGED <<src_state, src_poller>>

\* initialize (NEW -> INIT), start (ORBIT -> RUN), stop (RUN -> ORBIT): the
\* pool and the sockets are left alone.
src_transition ==
    \E t \in {<<"NEW", "INIT">>, <<"ORBIT", "RUN">>, <<"RUN", "ORBIT">>} :
        /\ src_state = t[1]
        /\ src_state' = t[2]
        /\ UNCHANGED <<pull_interfaces, pull_sockets, src_poller,
                       src_registered, src_closed, src_raised, src_last,
                       src_added, src_ops>>

\* do_launching: a new poller, a socket for every interface.
do_launching ==
    /\ src_state = "INIT"
    /\ src_state' = "ORBIT"
    /\ src_poller' = TRUE
    /\ pull_sockets' = pull_sockets \cup pull_interfaces
    /\ src_registered' = pull_interfaces
    /\ src_closed' = src_closed \ pull_interfaces
    /\ src_raised' = "none"
    /\ UNCHANGED <<pull_interfaces, src_last, src_added, src_ops>>

\* do_landing: _remove_socket for every interface, up to the first key
\* without a socket, which raises KeyError and takes the satellite to
\* ERROR, where fail_gracefully closes what is left and drops the poller.
do_landing ==
    /\ src_state = "ORBIT"
    /\ src_poller' = FALSE
    /\ src_registered' = {}
    /\ src_closed' = src_closed \cup (pull_sockets \cap pull_interfaces)
    /\ pull_sockets' = pull_sockets \ pull_interfaces
    /\ IF pull_interfaces \subseteq pull_sockets
       THEN src_state' = "INIT" /\ src_raised' = "none"
       ELSE src_state' = "ERROR" /\ src_raised' = "KeyError"
    /\ UNCHANGED <<pull_interfaces, src_last, src_added, src_ops>>

\* fail_gracefully, called when a failure takes the receiver to ERROR:
\* _remove_socket for every interface, a KeyError is passed over; the
\* poller is dropped.
fail_gracefully ==
    /\ src_state \in {"INIT", "ORBIT", "RUN"}
    /\ src_state' = "ERROR"
    /\ src_poller' = FALSE
    /\ src_registered' = {}
    /\ src_closed' = src_closed \cup (pull_sockets \cap pull_interfaces)
    /\ pull_sockets' = pull_sockets \ pull_interfaces
    /\ src_raised' = "none"
    /\ UNCHANGED <<pull_interfaces, src_last, src_added, src_ops>>

\* ------------------------------------------- monitoring listener, set up
\* MonitoringListener.__init__ from the start of the communication threads
\* on, against the task handler thread it starts: the statements of the
\* constructor one by one, the discovery callbacks the listener thread puts
\* on the task queue, and _add_satellite as the task handler runs it.
VARIABLES
    ctor_pc,           \* number of the next statement of CtorSteps
    ctor_task_queue,   \* self.task_queue: uuids of the offers to be handled
    has_poller,        \* self.poller exists
    has_poller_lock,   \* self._poller_lock exists
    log_listeners,     \* keys of self._log_listeners
    ctor_sockets,      \* keys of self._metric_sockets
    ctor_registered,   \* sockets registered with self.poller
    handler_pc,        \* task handler: "idle", "connect" or "register"
    handler_uuid,      \* the peer whose callback it is running
    handler_logged,    \* peers whose callback raised (log.exception)
    discovered         \* history: peers whose offer was received

ctorvars == <<ctor_pc, ctor_task_queue, has_poller, has_poller_lock,
              log_listeners, ctor_sockets, ctor_registered, handler_pc,
              handler_uuid, handler_logged, discovered>>

\* The statements of __init__ after the output directories are made.
CtorSteps ==
    <<"_start_com_threads", "request", "_task_handler_thread.start",
      "_metrics_receiver_shutdown", "poller", "_poller_lock">>
CtorDone == Len(CtorSteps) + 1
\* The statements of __init__ that were executed.
Executed(stmt) == \E i \in 1..(ctor_pc - 1) : CtorSteps[i] = stmt

InitCtor ==
    /\ ctor_pc = 1
    /\ ctor_task_queue = <<>>
    /\ has_poller = FALSE
    /\ has_poller_lock = FALSE
    /\ log_listeners = {}
    /\ ctor_sockets = {}
    /\ ctor_registered = {}
    /\ handler_pc = "idle"
    /\ handler_uuid = "none"
    /\ handler_logged = {}
    /\ discovered = {}

\* __init__: the next statement.
ctor_step ==
    /\ ctor_pc < CtorDone
    /\ ctor_pc' = ctor_pc + 1
    /\ has_poller' = (has_poller \/ CtorSteps[ctor_pc] = "poller")
    /\ has_poller_lock' = (has_poller_lock \/ CtorSteps[ctor_pc] = "_poller_lock")
    /\ UNCHANGED <<ctor_task_queue, log_listeners, ctor_sockets,
                   ctor_registered, handler_pc, handler_uuid, handler_logged,
                   discovered>>

\* The listener thread receives the offer of a MONITORING service and puts
\* its callback on the task queue.
discover ==
    \E u \in Uuids \ discovered :
        /\ Executed("_start_com_threads")
        /\ Executed("request")
        /\ discovered' = discovered \cup {u}
        /\ ctor_task_queue' = Append(ctor_task_queue, u)
        /\ UNCHANGED <<ctor_pc, has_poller, has_poller_lock, log_listeners,
                       ctor_sockets, ctor_registered, handler_pc,
                       handler_uuid, handler_logged>>

\* _run_task_handler: task = self.task_queue.get(...)
handler_get ==
    /\ Executed("_task_handler_thread.start")
    /\ handler_pc = "idle"
    /\ ctor_task_queue # <<>>
    /\ handler_uuid' = Head(ctor_task_queue)
    /\ ctor_task_queue' = Tail(ctor_task_queue)
    /\ handler_pc' = "connect"
    /\ UNCHANGED <<ctor_pc, has_poller, has_poller_lock, log_listeners,
                   ctor_sockets, ctor_registered, handler_logged, discovered>>

\* _add_satellite up to self._metric_sockets[uuid] = socket
handler_connect ==
    /\ handler_pc = "connect"
    /\ log_listeners' = log_listeners \cup {handler_uuid}
    /\ ctor_sockets' = ctor_sockets \cup {handler_uuid}
    /\ handler_pc' = "register"
    /\ UNCHANGED <<ctor_pc, ctor_task_queue, has_poller, has_poller_lock,
                   ctor_registered, handler_uuid, handler_logged, discovered>>

\* self.poller.register(socket, zmq.POLLIN): AttributeError while there is
\* no self.poller, which _run_task_handler catches and logs.
handler_register ==
    /\ handler_pc = "register"
    /\ IF has_poller
       THEN /\ ctor_registered' = ctor_registered \cup {handler_uuid}
            /\ UNCHANGED handler_logged
       ELSE /\ handler_logged' = handler_logged \cup {handler_uuid}
            /\ UNCHANGED ctor_registered
    /\ handler_pc' = "idle"
    /\ handler_uuid' = "none"
    /\ UNCHANGED <<ctor_pc, ctor_task_queue, has_poller, has_poller_lock,
                   log_listeners, ctor_sockets, discovered>>

\* ------------------------------------------------- metric registration
\* MonitoringSender: _send_metrics iterating over self._metrics_callbacks
\* while schedule_metric and reset_scheduled_metrics are called from another
\* thread.  A dictionary is the sequence of its keys in insertion order; the
\* iterator of "for ... in d.items()" remembers the dictionary, its size
\* when the iteration started and its position, and raises RuntimeError
\* when it is asked for the next item of a dictionary whose size changed.
VARIABLES
    sch_pc,        \* "while", "for", "sleep"; "stopped"; "dead" once an
                   \* exception has left _send_metrics
    sch_dicts,     \* every dictionary made so far
    sch_cur,       \* the one self._metrics_callbacks is bound to
    sch_iter,      \* [d, used, pos] of the running for statement
    sch_last,      \* keys of last_update
    sch_evt,       \* self._com_thread_evt.is_set()
    sch_waiting,   \* history: for a scheduled metric not yet published, the
                   \* number of for statements completed since, else -1
    sch_changes    \* history: number of calls from the other thread

schvars == <<sch_pc, sch_dicts, sch_cur, sch_iter, sch_last, sch_evt,
             sch_waiting, sch_changes>>

MaxSched == 3

\* get_scheduled_metrics(self): the metrics provided via decorator.
Decorated == <<"m0">>
\* Names handed to schedule_metric (do_launching of the Keithley satellite).
Scheduled == {"Current", "Voltage"}

InSeq(x, q) == \E i \in DOMAIN q : q[i] = x

\* d[name] = ...: a new key goes to the end, an old one keeps its place.
DictSet(d, name) == IF InSeq(name, d) THEN d ELSE Append(d, name)

\* next() of the items iterator it over dictionary d.
IterNext(d, it) ==
    IF Len(d) # it.used THEN [kind |-> "RuntimeError", key |-> ""]
    ELSE IF it.pos >= Len(d) THEN [kind |-> "StopIteration", key |-> ""]
    ELSE [kind |-> "item", key |-> d[it.pos + 1]]

NoIter == [d |-> 0, used |-> 0, pos |-> 0]

InitSch ==
    /\ sch_pc = "while"
    /\ sch_dicts = <<Decorated>>
    /\ sch_cur = 1
    /\ sch_iter = NoIter
    /\ sch_last = {}
    /\ sch_evt = FALSE
    /\ sch_waiting = [n \in Scheduled |-> -1]
    /\ sch_changes = 0

\* while not self._com_thread_evt.is_set(): for ... in
\* self._metrics_callbacks.items()
send_metrics_while ==
    /\ sch_pc = "while"
    /\ IF sch_evt
       THEN sch_pc' = "stopped" /\ UNCHANGED sch_iter
       ELSE /\ sch_pc' = "for"
            /\ sch_iter' = [d |-> sch_cur, used |-> Len(sch_dicts[sch_cur]),
                            pos |-> 0]
    /\ UNCHANGED <<sch_dicts, sch_cur, sch_last, sch_evt, sch_waiting,
                   sch_changes>>

\* The for statement takes the next item and runs its body: a metric
\* without last_update is published.
send_metrics_for ==
    LET n == IterNext(sch_dicts[sch_iter.d], sch_iter) IN
    /\ sch_pc = "for"
    /\ CASE n.kind = "RuntimeError" ->
              /\ sch_pc' = "dead"
              /\ UNCHANGED <<sch_iter, sch_last, sch_waiting>>
         [] n.kind = "StopIteration" ->
              /\ sch_pc' = "sleep"
              /\ sch_waiting' = [m \in Scheduled |->
                                   IF sch_waiting[m] >= 0
                                   THEN sch_waiting[m] + 1 ELSE -1]
              /\ UNCHANGED <<sch_iter, sch_last>>
         [] OTHER ->
              /\ sch_pc' = "for"
              /\ sch_iter' = [sch_iter EXCEPT !.pos = @ + 1]
              /\ sch_last' = sch_last \cup {n.key}
              /\ sch_waiting' = [m \in Scheduled |->
                                   IF m = n.key THEN -1 ELSE sch_waiting[m]]
    /\ UNCHANGED <<sch_dicts, sch_cur, sch_evt, sch_changes>>

\* time.sleep(0.1)
send_metrics_sleep ==
    /\ sch_pc = "sleep"
    /\ sch_pc' = "while"
    /\ UNCHANGED <<sch_dicts, sch_cur, sch_iter, sch_last, sch_evt,
                   sch_waiting, sch_changes>>

\* schedule_metric(name, ...) from another thread.
schedule_metric ==
    \E name \in Scheduled :
        /\ sch_changes < MaxSched
        /\ sch_changes' = sch_changes + 1
        /\ sch_dicts' = [sch_dicts EXCEPT ![sch_cur] = DictSet(@, name)]
        /\ sch_waiting' = [sch_waiting EXCEPT ![name] =
                              IF InSeq(name, sch_dicts[sch_cur])
                                 \/ name \in sch_last
                              THEN @ ELSE 0]
        /\ UNCHANGED <<sch_pc, sch_cur, sch_iter, sch_last, sch_evt>>

\* reset_scheduled_metrics() from another thread: a new dictionary.
reset_scheduled_metrics ==
    /\ sch_changes < MaxSched
    /\ sch_changes' = sch_changes + 1
    /\ sch_dicts' = Append(sch_dicts, Decorated)
    /\ sch_cur' = Len(sch_dicts) + 1
    /\ sch_waiting' = [n \in Scheduled |-> -1]
    /\ UNCHANGED <<sch_pc, sch_iter, sch_last, sch_evt>>

\* The communication threads are told to stop.
sch_stop ==
    /\ ~sch_evt
    /\ sch_evt' = TRUE
    /\ UNCHANGED <<sch_pc, sch_dicts, sch_cur, sch_iter, sch_last,
                   sch_waiting, sch_changes>>

\* ------------------------------------------------------ stage run loop
\* ECTstage.do_run: the z positions, for each the zig-zag path over the x, y
\* and r positions, a move per active axis and a test of the cancellation
\* event after each.  A position is a number; NaN stands for the axis that
\* is not moved.
VARIABLES
    stg_pc,            \* "new", "z_for", "path_for", "move", "wait", "check",
                       \* "exit", "returned"
    stg_axis,          \* the axis of the move, wait or check at hand
    stg_pos,           \* pos: the list of positions of every axis
    stg_path,          \* the zig-zag path over x, y and r
    stg_iz,            \* number of z positions taken so far
    stg_ip,            \* number of points of the path taken so far
    state_thread_evt,  \* self._state_thread_evt.is_set()
    observed,          \* history: a test of the event has returned true
    last_move,         \* history: the last move_to, <<axis, position>>
    late_moves         \* history: the move_to issued after observed

stgvars == <<stg_pc, stg_axis, stg_pos, stg_path, stg_iz, stg_ip,
             state_thread_evt, observed, last_move, late_moves>>

NaN == 0
IsNan(p) == p = NaN
\* pos[axis]: [nan] for an axis that is not active, else its positions.
PosLists == {<<NaN>>, <<1>>, <<1, 2>>}

Rev(s) == [i \in 1..Len(s) |-> s[Len(s) + 1 - i]]
RECURSIVE Flatten(_)
Flatten(ss) == IF ss = <<>> THEN <<>> ELSE Head(ss) \o Flatten(Tail(ss))
\* Every second list reversed (index % 2 == 1, counting from 0).
ZigZag(rows) ==
    [i \in 1..Len(rows) |-> IF (i - 1) % 2 = 1 THEN Rev(rows[i]) ELSE rows[i]]

\* _generate_zigzagPath: the points (x, y, r)
GenerateZigzagPath(xs, ys, rs) ==
    LET XY == Flatten(ZigZag([j \in 1..Len(ys) |->
                                [i \in 1..Len(xs) |-> <<xs[i], ys[j]>>]]))
    IN  Flatten(ZigZag([k \in 1..Len(rs) |->
                          [i \in 1..Len(XY) |-> <<XY[i][1], XY[i][2], rs[k]>>]]))

\* Within a point of the path the axes are moved in the order r, y, x.
Coordinate(p, axis) ==
    CASE axis = "x" -> p[1] [] axis = "y" -> p[2] [] axis = "r" -> p[3]
AxisAfter(axis) ==
    CASE axis = "r" -> "y" [] axis = "y" -> "x" [] axis = "x" -> "none"

NoMove == <<"none", NaN>>
\* _move_to_start: every active axis goes to its start position.
MoveToStart == <<"start", NaN>>

InitStg ==
    /\ stg_pc = "new"
    /\ stg_axis = "none"
    /\ stg_pos = [a \in {"x", "y", "z", "r"} |-> <<NaN>>]
    /\ stg_path = <<>>
    /\ stg_iz = 0
    /\ stg_ip = 0
    /\ state_thread_evt = FALSE
    /\ observed = FALSE
    /\ last_move = NoMove
    /\ late_moves = <<>>

\* do_run up to the loop: the positions of every axis.
stage_run ==
    \E zs \in PosLists, xs \in PosLists, ys \in PosLists, rs \in PosLists :
        /\ stg_pc = "new"
        /\ stg_pos' = [a \in {"x", "y", "z", "r"} |->
                         CASE a = "x" -> xs [] a = "y" -> ys
                           [] a = "z" -> zs [] a = "r" -> rs]
        /\ stg_path' = GenerateZigzagPath(xs, ys, rs)
        /\ stg_pc' = "z_for"
        /\ UNCHANGED <<stg_axis, stg_iz, stg_ip, state_thread_evt, observed,
                       last_move, late_moves>>

\* for pos_z in pos["z"]: the next z position, or the end of the loop.
stage_z_for ==
    /\ stg_pc = "z_for"
    /\ IF stg_iz >= Len(stg_pos["z"])
       THEN /\ stg_pc' = "exit"
            /\ UNCHANGED <<stg_iz, stg_axis, stg_ip>>
       ELSE /\ stg_iz' = stg_iz + 1
            /\ stg_axis' = "z"
            /\ stg_ip' = 0
            /\ stg_pc' = "move"
    /\ UNCHANGED <<stg_pos, stg_path, state_thread_evt, observed, last_move,
                   late_moves>>

\* for pos_x, pos_y, pos_r in the path: the next point, or the end of the
\* inner loop.
stage_path_for ==
    /\ stg_pc = "path_for"
    /\ IF stg_ip >= Len(stg_path)
       THEN /\ stg_pc' = "z_for"
            /\ UNCHANGED <<stg_ip, stg_axis>>
       ELSE /\ stg_ip' = stg_ip + 1
            /\ stg_axis' = "r"
            /\ stg_pc' = "move"
    /\ UNCHANGED <<stg_pos, stg_path, stg_iz, state_thread_evt, observed,
                   last_move, late_moves>>

\* if not np.isnan(pos): self._move_stage(axis, pos), then the wait; else
\* on to the test that follows (none follows a z that is not moved).
stage_move ==
    LET p == IF stg_axis = "z" THEN stg_pos["z"][stg_iz]
             ELSE Coordinate(stg_path[stg_ip], stg_axis)
    IN
    /\ stg_pc = "move"
    /\ IF IsNan(p)
       THEN /\ stg_pc' = IF stg_axis = "z" THEN "path_for" ELSE "check"
            /\ UNCHANGED <<last_move, late_moves>>
       ELSE /\ stg_pc' = "wait"
            /\ last_move' = <<stg_axis, p>>
            /\ late_moves' = IF observed
                             THEN Append(late_moves, <<stg_axis, p>>)
                             ELSE late_moves
    /\ UNCHANGED <<stg_axis, stg_pos, stg_path, stg_iz, stg_ip,
                   state_thread_evt, observed>>

\* _wait_until_stage_stops_moving: left when the stage has stopped, or when
\* the stage is moving and the event is found set (the stage is stopped).
stage_wait ==
    \E moving \in BOOLEAN :
        /\ stg_pc = "wait"
        /\ moving => state_thread_evt
        /\ observed' = (observed \/ moving)
        /\ stg_pc' = "check"
        /\ UNCHANGED <<stg_axis, stg_pos, stg_path, stg_iz, stg_ip,
                       state_thread_evt, last_move, late_moves>>

\* if self._state_thread_evt.is_set(): break -- out of the loop the
\* statement is in; else the next axis, or the measurement and the next
\* point.
stage_check ==
    /\ stg_pc = "check"
    /\ observed' = (observed \/ state_thread_evt)
    /\ IF state_thread_evt
       THEN /\ stg_pc' = IF stg_axis = "z" THEN "exit" ELSE "z_for"
            /\ UNCHANGED stg_axis
       ELSE IF stg_axis \in {"z", "x"}
       THEN /\ stg_pc' = "path_for"
            /\ UNCHANGED stg_axis
       ELSE /\ stg_pc' = "move"
            /\ stg_axis' = AxisAfter(stg_axis)
    /\ UNCHANGED <<stg_pos, stg_path, stg_iz, stg_ip, state_thread_evt,
                   last_move, late_moves>>

\* run_interrupted = self._state_thread_evt.is_set(); a run that was not
\* interrupted moves back to the start positions.
stage_exit ==
    /\ stg_pc = "exit"
    /\ observed' = (observed \/ state_thread_evt)
    /\ stg_pc' = "returned"
    /\ last_move' = IF state_thread_evt THEN last_move ELSE MoveToStart
    /\ UNCHANGED <<stg_axis, stg_pos, stg_path, stg_iz, stg_ip,
                   state_thread_evt, late_moves>>

\* stop: the cancellation event is set while do_run runs.
stage_cancel ==
    /\ stg_pc \notin {"new", "returned"}
    /\ ~state_thread_evt
    /\ state_thread_evt' = TRUE
    /\ UNCHANGED <<stg_pc, stg_axis, stg_pos, stg_path, stg_iz, stg_ip,
                   observed, last_move, late_moves>>

\* -------------------------------------------------------- specifications
vars == <<txvars, sndvars, rxvars, decvars, cmdvars, hbvars, chkvars,
         monvars,
         lisvars,
         metvars,
         cfgvars,
         chirpvars,
         cycvars,
         srcvars,
         ctorvars,
         schvars,
         stgvars>>

Init == InitTx /\ InitSnd /\ InitRx /\ InitDec /\ InitCmd /\ InitHb
        /\ InitChk /\ InitMon /\ InitLis /\ InitMet /\ InitCfg /\ InitChirp /\ InitCyc /\ InitSrc /\ InitCtor /\ InitSch /\ InitStg

NextDec ==
    \/ decode /\ UNCHANGED <<txvars, sndvars, rxvars, cmdvars, hbvars, chkvars, monvars, lisvars, metvars, cfgvars, chirpvars, cycvars, srcvars, ctorvars, schvars, stgvars>>

NextCmd ==
    \/ recv_cmds /\ UNCHANGED <<txvars, sndvars, rxvars, decvars, hbvars, chkvars, monvars, lisvars, metvars, cfgvars, chirpvars, cycvars, srcvars, ctorvars, schvars, stgvars>>
    \/ recv_cmds_exit /\ UNCHANGED <<txvars, sndvars, rxvars, decvars, hbvars, chkvars, monvars, lisvars, metvars, cfgvars, chirpvars, cycvars, srcvars, ctorvars, schvars, stgvars>>
    \/ task_get /\ UNCHANGED <<txvars, sndvars, rxvars, decvars, hbvars, chkvars, monvars, lisvars, metvars, cfgvars, chirpvars, cycvars, srcvars, ctorvars, schvars, stgvars>>
    \/ task_run /\ UNCHANGED <<txvars, sndvars, rxvars, decvars, hbvars, chkvars, monvars, lisvars, metvars, cfgvars, chirpvars, cycvars, srcvars, ctorvars, schvars, stgvars>>

SpecCmd == Init /\ [][NextCmd]_vars

NextHb ==
    \/ fsm_change /\ UNCHANGED <<txvars, sndvars, rxvars, decvars, cmdvars, chkvars, monvars, lisvars, metvars, cfgvars, chirpvars, cycvars, srcvars, ctorvars, schvars, stgvars>>
    \/ fsm_flag /\ UNCHANGED <<txvars, sndvars, rxvars, decvars, cmdvars, chkvars, monvars, lisvars, metvars, cfgvars, chirpvars, cycvars, srcvars, ctorvars, schvars, stgvars>>
    \/ hb_test /\ UNCHANGED <<txvars, sndvars, rxvars, decvars, cmdvars, chkvars, monvars, lisvars, metvars, cfgvars, chirpvars, cycvars, srcvars, ctorvars, schvars, stgvars>>
    \/ hb_read /\ UNCHANGED <<txvars, sndvars, rxvars, decvars, cmdvars, chkvars, monvars, lisvars, metvars, cfgvars, chirpvars, cycvars, srcvars, ctorvars, schvars, stgvars>>
    \/ hb_send /\ UNCHANGED <<txvars, sndvars, rxvars, decvars, cmdvars, chkvars, monvars, lisvars, metvars, cfgvars, chirpvars, cycvars, srcvars, ctorvars, schvars, stgvars>>
    \/ hb_clear /\ UNCHANGED <<txvars, sndvars, rxvars, decvars, cmdvars, chkvars, monvars, lisvars, metvars, cfgvars, chirpvars, cycvars, srcvars, ctorvars, schvars, stgvars>>
    \/ hb_sleep /\ UNCHANGED <<txvars, sndvars, rxvars, decvars, cmdvars, chkvars, monvars, lisvars, metvars, cfgvars, chirpvars, cycvars, srcvars, ctorvars, schvars, stgvars>>

SpecHb == Init /\ [][NextHb]_vars

NextChk ==
    \/ chk_local /\ UNCHANGED <<txvars, sndvars, rxvars, decvars, cmdvars, hbvars, monvars, lisvars, metvars, cfgvars, chirpvars, cycvars, srcvars, ctorvars, schvars, stgvars>>
    \/ chk_kill /\ UNCHANGED <<txvars, sndvars, rxvars, decvars, cmdvars, hbvars, monvars, lisvars, metvars, cfgvars, chirpvars, cycvars, srcvars, ctorvars, schvars, stgvars>>
    \/ chk_beat /\ UNCHANGED <<txvars, sndvars, rxvars, decvars, cmdvars, hbvars, monvars, lisvars, metvars, cfgvars, chirpvars, cycvars, srcvars, ctorvars, schvars, stgvars>>
    \/ chk_miss /\ UNCHANGED <<txvars, sndvars, rxvars, decvars, cmdvars, hbvars, monvars, lisvars, metvars, cfgvars, chirpvars, cycvars, srcvars, ctorvars, schvars, stgvars>>
    \/ chk_tick /\ UNCHANGED <<txvars, sndvars, rxvars, decvars, cmdvars, hbvars, monvars, lisvars, metvars, cfgvars, chirpvars, cycvars, srcvars, ctorvars, schvars, stgvars>>

SpecChk == Init /\ [][NextChk]_vars

SpecDec == Init /\ [][NextDec]_vars

NextTx ==
    \/ send_start /\ UNCHANGED <<sndvars, rxvars, decvars, cmdvars, hbvars, chkvars, monvars, lisvars, metvars, cfgvars, chirpvars, cycvars, srcvars, ctorvars, schvars, stgvars>>
    \/ send_data /\ UNCHANGED <<sndvars, rxvars, decvars, cmdvars, hbvars, chkvars, monvars, lisvars, metvars, cfgvars, chirpvars, cycvars, srcvars, ctorvars, schvars, stgvars>>
    \/ send_end /\ UNCHANGED <<sndvars, rxvars, decvars, cmdvars, hbvars, chkvars, monvars, lisvars, metvars, cfgvars, chirpvars, cycvars, srcvars, ctorvars, schvars, stgvars>>
    \/ recv /\ UNCHANGED <<sndvars, rxvars, decvars, cmdvars, hbvars, chkvars, monvars, lisvars, metvars, cfgvars, chirpvars, cycvars, srcvars, ctorvars, schvars, stgvars>>

SpecTx == Init /\ [][NextTx]_vars

NextSnd ==
    \/ snd_start /\ UNCHANGED <<rxvars, decvars, cmdvars, hbvars, chkvars, monvars, lisvars, metvars, cfgvars, chirpvars, cycvars, srcvars, ctorvars, schvars, stgvars>>
    \/ snd_put /\ UNCHANGED <<rxvars, decvars, cmdvars, hbvars, chkvars, monvars, lisvars, metvars, cfgvars, chirpvars, cycvars, srcvars, ctorvars, schvars, stgvars>>
    \/ snd_push /\ UNCHANGED <<rxvars, decvars, cmdvars, hbvars, chkvars, monvars, lisvars, metvars, cfgvars, chirpvars, cycvars, srcvars, ctorvars, schvars, stgvars>>
    \/ snd_stop /\ UNCHANGED <<rxvars, decvars, cmdvars, hbvars, chkvars, monvars, lisvars, metvars, cfgvars, chirpvars, cycvars, srcvars, ctorvars, schvars, stgvars>>
    \/ snd_recv /\ UNCHANGED <<rxvars, decvars, cmdvars, hbvars, chkvars, monvars, lisvars, metvars, cfgvars, chirpvars, cycvars, srcvars, ctorvars, schvars, stgvars>>

SpecSnd == Init /\ [][NextSnd]_vars

NextRx ==
    \/ rx_start /\ UNCHANGED <<txvars, sndvars, decvars, cmdvars, hbvars, chkvars, monvars, lisvars, metvars, cfgvars, chirpvars, cycvars, srcvars, ctorvars, schvars, stgvars>>
    \/ rx_check /\ UNCHANGED <<txvars, sndvars, decvars, cmdvars, hbvars, chkvars, monvars, lisvars, metvars, cfgvars, chirpvars, cycvars, srcvars, ctorvars, schvars, stgvars>>
    \/ rx_poll /\ UNCHANGED <<txvars, sndvars, decvars, cmdvars, hbvars, chkvars, monvars, lisvars, metvars, cfgvars, chirpvars, cycvars, srcvars, ctorvars, schvars, stgvars>>
    \/ rx_handle /\ UNCHANGED <<txvars, sndvars, decvars, cmdvars, hbvars, chkvars, monvars, lisvars, metvars, cfgvars, chirpvars, cycvars, srcvars, ctorvars, schvars, stgvars>>
    \/ rx_stop /\ UNCHANGED <<txvars, sndvars, decvars, cmdvars, hbvars, chkvars, monvars, lisvars, metvars, cfgvars, chirpvars, cycvars, srcvars, ctorvars, schvars, stgvars>>
    \/ rx_arrive /\ UNCHANGED <<txvars, sndvars, decvars, cmdvars, hbvars, chkvars, monvars, lisvars, metvars, cfgvars, chirpvars, cycvars, srcvars, ctorvars, schvars, stgvars>>

SpecRx == Init /\ [][NextRx]_vars

NextMon ==
    \/ enqueue /\ UNCHANGED <<txvars, sndvars, rxvars, decvars, cmdvars, hbvars, chkvars, lisvars, metvars, cfgvars, chirpvars, cycvars, srcvars, ctorvars, schvars, stgvars>>
    \/ send_metric /\ UNCHANGED <<txvars, sndvars, rxvars, decvars, cmdvars, hbvars, chkvars, lisvars, metvars, cfgvars, chirpvars, cycvars, srcvars, ctorvars, schvars, stgvars>>
    \/ dispatch /\ UNCHANGED <<txvars, sndvars, rxvars, decvars, cmdvars, hbvars, chkvars, lisvars, metvars, cfgvars, chirpvars, cycvars, srcvars, ctorvars, schvars, stgvars>>

SpecMon == Init /\ [][NextMon]_vars

NextLis ==
    \/ receive_metrics_poll /\ UNCHANGED <<txvars, sndvars, rxvars, decvars, cmdvars, hbvars, chkvars, monvars, metvars, cfgvars, chirpvars, cycvars, srcvars, ctorvars, schvars, stgvars>>
    \/ receive_metrics_release /\ UNCHANGED <<txvars, sndvars, rxvars, decvars, cmdvars, hbvars, chkvars, monvars, metvars, cfgvars, chirpvars, cycvars, srcvars, ctorvars, schvars, stgvars>>
    \/ add_satellite /\ UNCHANGED <<txvars, sndvars, rxvars, decvars, cmdvars, hbvars, chkvars, monvars, metvars, cfgvars, chirpvars, cycvars, srcvars, ctorvars, schvars, stgvars>>
    \/ add_satellite_register /\ UNCHANGED <<txvars, sndvars, rxvars, decvars, cmdvars, hbvars, chkvars, monvars, metvars, cfgvars, chirpvars, cycvars, srcvars, ctorvars, schvars, stgvars>>
    \/ remove_satellite /\ UNCHANGED <<txvars, sndvars, rxvars, decvars, cmdvars, hbvars, chkvars, monvars, metvars, cfgvars, chirpvars, cycvars, srcvars, ctorvars, schvars, stgvars>>
    \/ remove_satellite_pop /\ UNCHANGED <<txvars, sndvars, rxvars, decvars, cmdvars, hbvars, chkvars, monvars, metvars, cfgvars, chirpvars, cycvars, srcvars, ctorvars, schvars, stgvars>>
    \/ remove_satellite_unregister /\ UNCHANGED <<txvars, sndvars, rxvars, decvars, cmdvars, hbvars, chkvars, monvars, metvars, cfgvars, chirpvars, cycvars, srcvars, ctorvars, schvars, stgvars>>
    \/ remove_satellite_close /\ UNCHANGED <<txvars, sndvars, rxvars, decvars, cmdvars, hbvars, chkvars, monvars, metvars, cfgvars, chirpvars, cycvars, srcvars, ctorvars, schvars, stgvars>>
    \/ monitor_shutdown /\ UNCHANGED <<txvars, sndvars, rxvars, decvars, cmdvars, hbvars, chkvars, monvars, metvars, cfgvars, chirpvars, cycvars, srcvars, ctorvars, schvars, stgvars>>
    \/ monitor_shutdown_lock /\ UNCHANGED <<txvars, sndvars, rxvars, decvars, cmdvars, hbvars, chkvars, monvars, metvars, cfgvars, chirpvars, cycvars, srcvars, ctorvars, schvars, stgvars>>
    \/ monitor_shutdown_close /\ UNCHANGED <<txvars, sndvars, rxvars, decvars, cmdvars, hbvars, chkvars, monvars, metvars, cfgvars, chirpvars, cycvars, srcvars, ctorvars, schvars, stgvars>>

SpecLis == Init /\ [][NextLis]_vars

NextMet ==
    \/ met_while /\ UNCHANGED <<txvars, sndvars, rxvars, decvars, cmdvars, hbvars, chkvars, monvars, lisvars, cfgvars, chirpvars, cycvars, srcvars, ctorvars, schvars, stgvars>>
    \/ met_for /\ UNCHANGED <<txvars, sndvars, rxvars, decvars, cmdvars, hbvars, chkvars, monvars, lisvars, cfgvars, chirpvars, cycvars, srcvars, ctorvars, schvars, stgvars>>
    \/ met_call /\ UNCHANGED <<txvars, sndvars, rxvars, decvars, cmdvars, hbvars, chkvars, monvars, lisvars, cfgvars, chirpvars, cycvars, srcvars, ctorvars, schvars, stgvars>>
    \/ met_sleep /\ UNCHANGED <<txvars, sndvars, rxvars, decvars, cmdvars, hbvars, chkvars, monvars, lisvars, cfgvars, chirpvars, cycvars, srcvars, ctorvars, schvars, stgvars>>
    \/ met_stop /\ UNCHANGED <<txvars, sndvars, rxvars, decvars, cmdvars, hbvars, chkvars, monvars, lisvars, cfgvars, chirpvars, cycvars, srcvars, ctorvars, schvars, stgvars>>

SpecMet == Init /\ [][NextMet]_vars

NextCfg ==
    \/ cfg_init /\ UNCHANGED <<txvars, sndvars, rxvars, decvars, cmdvars, hbvars, chkvars, monvars, lisvars, metvars, chirpvars, cycvars, srcvars, ctorvars, schvars, stgvars>>
    \/ cfg_getitem /\ UNCHANGED <<txvars, sndvars, rxvars, decvars, cmdvars, hbvars, chkvars, monvars, lisvars, metvars, chirpvars, cycvars, srcvars, ctorvars, schvars, stgvars>>
    \/ cfg_setdefault /\ UNCHANGED <<txvars, sndvars, rxvars, decvars, cmdvars, hbvars, chkvars, monvars, lisvars, metvars, chirpvars, cycvars, srcvars, ctorvars, schvars, stgvars>>

SpecCfg == Init /\ [][NextCfg]_vars

NextUpd ==
    \/ cfg_init /\ UNCHANGED <<txvars, sndvars, rxvars, decvars, cmdvars, hbvars, chkvars, monvars, lisvars, metvars, chirpvars, cycvars, srcvars, ctorvars, schvars, stgvars>>
    \/ cfg_getitem /\ UNCHANGED <<txvars, sndvars, rxvars, decvars, cmdvars, hbvars, chkvars, monvars, lisvars, metvars, chirpvars, cycvars, srcvars, ctorvars, schvars, stgvars>>
    \/ cfg_setdefault /\ UNCHANGED <<txvars, sndvars, rxvars, decvars, cmdvars, hbvars, chkvars, monvars, lisvars, metvars, chirpvars, cycvars, srcvars, ctorvars, schvars, stgvars>>
    \/ cfg_update /\ UNCHANGED <<txvars, sndvars, rxvars, decvars, cmdvars, hbvars, chkvars, monvars, lisvars, metvars, chirpvars, cycvars, srcvars, ctorvars, schvars, stgvars>>

SpecUpd == Init /\ [][NextUpd]_vars

NextChirp ==
    \/ chirp_filter /\ UNCHANGED <<txvars, sndvars, rxvars, decvars, cmdvars, hbvars, chkvars, monvars, lisvars, metvars, cfgvars, cycvars, srcvars, ctorvars, schvars, stgvars>>
    \/ chirp_pack /\ UNCHANGED <<txvars, sndvars, rxvars, decvars, cmdvars, hbvars, chkvars, monvars, lisvars, metvars, cfgvars, cycvars, srcvars, ctorvars, schvars, stgvars>>
    \/ chirp_malformed /\ UNCHANGED <<txvars, sndvars, rxvars, decvars, cmdvars, hbvars, chkvars, monvars, lisvars, metvars, cfgvars, cycvars, srcvars, ctorvars, schvars, stgvars>>
    \/ chirp_listen /\ UNCHANGED <<txvars, sndvars, rxvars, decvars, cmdvars, hbvars, chkvars, monvars, lisvars, metvars, cfgvars, cycvars, srcvars, ctorvars, schvars, stgvars>>

SpecChirp == Init /\ [][NextChirp]_vars

NextCyc ==
    \/ cyc_initialize /\ UNCHANGED <<txvars, sndvars, rxvars, decvars, cmdvars, hbvars, chkvars, monvars, lisvars, metvars, cfgvars, chirpvars, srcvars, ctorvars, schvars, stgvars>>
    \/ cyc_start /\ UNCHANGED <<txvars, sndvars, rxvars, decvars, cmdvars, hbvars, chkvars, monvars, lisvars, metvars, cfgvars, chirpvars, srcvars, ctorvars, schvars, stgvars>>
    \/ cyc_stop /\ UNCHANGED <<txvars, sndvars, rxvars, decvars, cmdvars, hbvars, chkvars, monvars, lisvars, metvars, cfgvars, chirpvars, srcvars, ctorvars, schvars, stgvars>>

SpecCyc == Init /\ [][NextCyc]_vars

NextSrc ==
    \/ add_sender /\ UNCHANGED <<txvars, sndvars, rxvars, decvars, cmdvars, hbvars, chkvars, monvars, lisvars, metvars, cfgvars, chirpvars, cycvars, ctorvars, schvars, stgvars>>
    \/ remove_sender /\ UNCHANGED <<txvars, sndvars, rxvars, decvars, cmdvars, hbvars, chkvars, monvars, lisvars, metvars, cfgvars, chirpvars, cycvars, ctorvars, schvars, stgvars>>
    \/ src_transition /\ UNCHANGED <<txvars, sndvars, rxvars, decvars, cmdvars, hbvars, chkvars, monvars, lisvars, metvars, cfgvars, chirpvars, cycvars, ctorvars, schvars, stgvars>>
    \/ do_launching /\ UNCHANGED <<txvars, sndvars, rxvars, decvars, cmdvars, hbvars, chkvars, monvars, lisvars, metvars, cfgvars, chirpvars, cycvars, ctorvars, schvars, stgvars>>
    \/ do_landing /\ UNCHANGED <<txvars, sndvars, rxvars, decvars, cmdvars, hbvars, chkvars, monvars, lisvars, metvars, cfgvars, chirpvars, cycvars, ctorvars, schvars, stgvars>>
    \/ fail_gracefully /\ UNCHANGED <<txvars, sndvars, rxvars, decvars, cmdvars, hbvars, chkvars, monvars, lisvars, metvars, cfgvars, chirpvars, cycvars, ctorvars, schvars, stgvars>>

SpecSrc == Init /\ [][NextSrc]_vars

NextCtor ==
    \/ ctor_step /\ UNCHANGED <<txvars, sndvars, rxvars, decvars, cmdvars, hbvars, chkvars, monvars, lisvars, metvars, cfgvars, chirpvars, cycvars, srcvars, schvars, stgvars>>
    \/ discover /\ UNCHANGED <<txvars, sndvars, rxvars, decvars, cmdvars, hbvars, chkvars, monvars, lisvars, metvars, cfgvars, chirpvars, cycvars, srcvars, schvars, stgvars>>
    \/ handler_get /\ UNCHANGED <<txvars, sndvars, rxvars, decvars, cmdvars, hbvars, chkvars, monvars, lisvars, metvars, cfgvars, chirpvars, cycvars, srcvars, schvars, stgvars>>
    \/ handler_connect /\ UNCHANGED <<txvars, sndvars, rxvars, decvars, cmdvars, hbvars, chkvars, monvars, lisvars, metvars, cfgvars, chirpvars, cycvars, srcvars, schvars, stgvars>>
    \/ handler_register /\ UNCHANGED <<txvars, sndvars, rxvars, decvars, cmdvars, hbvars, chkvars, monvars, lisvars, metvars, cfgvars, chirpvars, cycvars, srcvars, schvars, stgvars>>

SpecCtor == Init /\ [][NextCtor]_vars

NextSch ==
    \/ send_metrics_while /\ UNCHANGED <<txvars, sndvars, rxvars, decvars, cmdvars, hbvars, chkvars, monvars, lisvars, metvars, cfgvars, chirpvars, cycvars, srcvars, ctorvars, stgvars>>
    \/ send_metrics_for /\ UNCHANGED <<txvars, sndvars, rxvars, decvars, cmdvars, hbvars, chkvars, monvars, lisvars, metvars, cfgvars, chirpvars, cycvars, srcvars, ctorvars, stgvars>>
    \/ send_metrics_sleep /\ UNCHANGED <<txvars, sndvars, rxvars, decvars, cmdvars, hbvars, chkvars, monvars, lisvars, metvars, cfgvars, chirpvars, cycvars, srcvars, ctorvars, stgvars>>
    \/ schedule_metric /\ UNCHANGED <<txvars, sndvars, rxvars, decvars, cmdvars, hbvars, chkvars, monvars, lisvars, metvars, cfgvars, chirpvars, cycvars, srcvars, ctorvars, stgvars>>
    \/ reset_scheduled_metrics /\ UNCHANGED <<txvars, sndvars, rxvars, decvars, cmdvars, hbvars, chkvars, monvars, lisvars, metvars, cfgvars, chirpvars, cycvars, srcvars, ctorvars, stgvars>>
    \/ sch_stop /\ UNCHANGED <<txvars, sndvars, rxvars, decvars, cmdvars, hbvars, chkvars, monvars, lisvars, metvars, cfgvars, chirpvars, cycvars, srcvars, ctorvars, stgvars>>

SpecSch == Init /\ [][NextSch]_vars

NextStg ==
    \/ stage_run /\ UNCHANGED <<txvars, sndvars, rxvars, decvars, cmdvars, hbvars, chkvars, monvars, lisvars, metvars, cfgvars, chirpvars, cycvars, srcvars, ctorvars, schvars>>
    \/ stage_z_for /\ UNCHANGED <<txvars, sndvars, rxvars, decvars, cmdvars, hbvars, chkvars, monvars, lisvars, metvars, cfgvars, chirpvars, cycvars, srcvars, ctorvars, schvars>>
    \/ stage_path_for /\ UNCHANGED <<txvars, sndvars, rxvars, decvars, cmdvars, hbvars, chkvars, monvars, lisvars, metvars, cfgvars, chirpvars, cycvars, srcvars, ctorvars, schvars>>
    \/ stage_move /\ UNCHANGED <<txvars, sndvars, rxvars, decvars, cmdvars, hbvars, chkvars, monvars, lisvars, metvars, cfgvars, chirpvars, cycvars, srcvars, ctorvars, schvars>>
    \/ stage_wait /\ UNCHANGED <<txvars, sndvars, rxvars, decvars, cmdvars, hbvars, chkvars, monvars, lisvars, metvars, cfgvars, chirpvars, cycvars, srcvars, ctorvars, schvars>>
    \/ stage_check /\ UNCHANGED <<txvars, sndvars, rxvars, decvars, cmdvars, hbvars, chkvars, monvars, lisvars, metvars, cfgvars, chirpvars, cycvars, srcvars, ctorvars, schvars>>
    \/ stage_exit /\ UNCHANGED <<txvars, sndvars, rxvars, decvars, cmdvars, hbvars, chkvars, monvars, lisvars, metvars, cfgvars, chirpvars, cycvars, srcvars, ctorvars, schvars>>
    \/ stage_cancel /\ UNCHANGED <<txvars, sndvars, rxvars, decvars, cmdvars, hbvars, chkvars, monvars, lisvars, metvars, cfgvars, chirpvars, cycvars, srcvars, ctorvars, schvars>>

SpecStg == Init /\ [][NextStg]_vars

\* ----------------------------------------------------- claims: transmitter
\* Index of the last BOR among sent[1..i], 0 if there is none.
LastBor(i) ==
    LET bs == {j \in 1..i : sent[j].msgtype = BOR} IN
    IF bs = {} THEN 0 ELSE CHOOSE j \in bs : \A k \in bs : k <= j

\* Number of DAT among sent[LastBor(i)+1 .. i].
DatsSince(i) == Cardinality({j \in (LastBor(i) + 1)..i : sent[j].msgtype = DAT})

\* C1: every BOR carries sequence number 0, the n-th send_data after the
\* most recent send_start carries n, and send_start resets the counter to 0.
C1_SequenceNumbers ==
    /\ \A i \in DOMAIN sent :
        /\ sent[i].msgtype = BOR => sent[i].seqno = 0
        /\ sent[i].msgtype = DAT => sent[i].seqno = DatsSince(i)
    /\ (sent # <<>> /\ sent[Len(sent)].msgtype = BOR) => sequence_number = 0

\* Two DAT (the second with 2), then a BOR, then a DAT that carries 1 again.
C1_Witness ==
    \E i, j, k \in DOMAIN sent :
        /\ i < j /\ j < k
        /\ sent[i].msgtype = DAT /\ sent[i].seqno = 2
        /\ sent[j].msgtype = BOR
        /\ sent[k].msgtype = DAT /\ sent[k].seqno = 1

\* C2: the EOR that ends a run BOR, DAT^k carries sequence number k + 1, so
\* that the numbers of the run are 0, 1, ..., k, k + 1 with none repeated.
C2_EorIsLastPlusOne ==
    \A i \in DOMAIN sent :
        (/\ sent[i].msgtype = EOR
         /\ LastBor(i) > 0
         /\ \A j \in (LastBor(i) + 1)..(i - 1) : sent[j].msgtype = DAT)
        => /\ sent[i].seqno = DatsSince(i) + 1
           /\ \A j \in LastBor(i)..(i - 1) : sent[j].seqno < sent[i].seqno

\* C10: a message sent with a payload other than None is decoded by recv()
\* into a message of the same kind, sequence number, meta and payload.
C10_RoundTrip ==
    rcvd_asked.payload # PyNone =>
        /\ rcvd.msgtype = rcvd_asked.msgtype
        /\ rcvd.sequence_number = rcvd_asked.seqno
        /\ rcvd.meta = rcvd_asked.meta
        /\ rcvd.payload = rcvd_asked.payload

\* ------------------------------------------------------- claims: producer
\* C3: the frames pushed in a run are one BOR, then one DAT per payload put
\* on the data queue, in queue order and with the payload unchanged, then
\* one EOR, sent only after every queued payload; no DAT follows the EOR.
C3_RunFrames ==
    LET n == Len(pushed)
        ended == snd_state = "ORBIT" /\ n > 0
        ndat == IF ended THEN n - 2 ELSE n - 1
    IN  n > 0 =>
        /\ Decode(pushed[1]).msgtype = BOR
        /\ ndat <= Len(puts)
        /\ ended => ndat = Len(puts) /\ Decode(pushed[n]).msgtype = EOR
        /\ \A i \in 1..ndat :
            /\ Decode(pushed[i + 1]).msgtype = DAT
            /\ Decode(pushed[i + 1]).payload = puts[i].payload
            /\ Decode(pushed[i + 1]).meta = puts[i].meta

C5_DataImpliesBor ==
    \A s \in DOMAIN h5file :
        DOMAIN h5file[s].dsets # {} => "BOR" \in DOMAIN h5file[s].subs

\* C6: when do_run has returned, no message that arrived within the grace
\* period after the event was set is left unwritten on a socket.
C6_GraceArrivalsWritten ==
    rx_pc = "returned" =>
        \A s \in Senders : \A i \in DOMAIN inbox[s] : ~inbox[s][i].grace

\* C7: a message that fails to decode is dropped alone: the run loop is not
\* left.
C7_BadMessageDropped == last.bad => rx_pc # "raised"

\* C8: no step changes a file that exists on disk.
C8_ExistingFilesUnchanged ==
    [][\A p \in DOMAIN fs : p \in DOMAIN fs' /\ fs'[p] = fs[p]]_vars

\* C9: the file records each message of a sender's run: the BOR as subgroup
\* BOR whose attributes are the BOR's meta, a DAT as data set
\* data_<run>_<seq> holding the payload, the EOR as subgroup EOR whose
\* attributes are the EOR's meta.
C9_FileRecordsRun ==
    (last # NoLast /\ ~last.bad /\ rx_pc # "raised") =>
        LET item == last.item
            grp == h5file[item.name]
        IN  /\ (item.msgtype = BOR /\ last.late) =>
                /\ "BOR" \in DOMAIN grp.subs
                /\ grp.subs["BOR"].attrs = item.meta
            /\ item.msgtype = DAT =>
                /\ Title(run_number, item.sequence_number) \in DOMAIN grp.dsets
                /\ grp.dsets[Title(run_number, item.sequence_number)].data = item.payload
            /\ item.msgtype = EOR =>
                /\ "EOR" \in DOMAIN grp.subs
                /\ grp.subs["EOR"].attrs = item.meta

\* --------------------------------------------------------- claims: decode
\* C11: decode() keeps the payload frames apart: k >= 2 payload frames give
\* the list of the k decoded frames in their order, one payload frame gives
\* its decoded value, none gives None without failing.
C11_FrameBoundaries ==
    (dec_pc # "none" /\ DecodeOk(dec_in)) =>
        /\ dec_pc = "returned"
        /\ Len(dec_vals) >= 2 => /\ dec_out.payload.t = "list"
                                 /\ dec_out.payload.items = dec_vals
        /\ Len(dec_vals) = 1 => dec_out.payload = dec_vals[1]
        /\ Len(dec_vals) = 0 => dec_out.payload = PyNone

\* Three payload frames of which two differ were decoded.
C11_Witness ==
    /\ dec_pc = "returned"
    /\ Len(dec_vals) = 3
    /\ dec_vals[1] # dec_vals[2]
    /\ dec_out.payload.n = 3

\* ------------------------------------------------ claims: command receiver
ContainsNotAllowed(m) ==
    \E i \in 1..(Len(m) - 1) : m[i] = "not" /\ m[i + 1] = "allowed"

\* C12: a lifecycle verb that is not admissible from the current state (start
\* in NEW, for one) is answered INVALID with a message containing "not
\* allowed"; the state is unchanged and nothing is put on the task queue.
C12_InadmissibleVerbRejected ==
    (/\ exch.msg_verb = "REQUEST"
     /\ exch.msg \in LifecycleVerbs
     /\ \/ Target(exch.pre_state, exch.msg) = "none"
        \/ exch.msg = "start" /\ exch.pre_state = "NEW")
    => /\ exch.reply.verb = "INVALID"
       /\ ContainsNotAllowed(exch.reply.msg)
       /\ state = exch.pre_state
       /\ Len(task_queue) = exch.pre_queue
       /\ ntasks = Len(started) + Len(task_queue)

C12_Witness ==
    /\ exch.msg_verb = "REQUEST"
    /\ exch.msg = "start"
    /\ exch.pre_state = "NEW"
    /\ exch.reply.verb = "INVALID"
    /\ state = "NEW"

\* C13: when the guard of a known verb returns false the reply is INVALID
\* and the handler is not called: no effect on the state, nothing queued.
\* get_current of the example satellite is so answered in every state other
\* than ORBIT and RUN.
C13_GuardFalseRejected ==
    (/\ exch.msg_verb = "REQUEST"
     /\ \/ exch.guard = "false"
        \/ exch.msg = "get_current" /\ exch.pre_state \notin {"ORBIT", "RUN"})
    => /\ exch.reply.verb = "INVALID"
       /\ exch.out = NotCalled
       /\ state = exch.pre_state
       /\ Len(task_queue) = exch.pre_queue

C13_Witness ==
    /\ exch.msg = "get_current"
    /\ exch.guard = "false"
    /\ exch.pre_state = "INIT"
    /\ exch.reply.verb = "INVALID"

\* C14: a handler exception that is neither an argument-type mismatch nor a
\* disallowed transition is answered ERROR, with the exception text.
C14_OtherExceptionIsError ==
    (/\ exch.out.kind = "raise"
     /\ exch.out.exc \notin {"TypeError", "ValueError", "TransitionNotAllowed"})
    => /\ exch.reply.verb = "ERROR"
       /\ \E i \in DOMAIN exch.reply.msg : exch.reply.msg[i] = exch.out.exc

C16_LoopSurvives == cmd_alive \/ com_thread_evt

\* C17: one worker executes the tasks one at a time in the order they were
\* put on the queue: the reentry task of shutdown starts when every task
\* queued before it is done, and shutdown is answered while the reentry task
\* is still on the queue.
C17_TasksInOrder ==
    /\ \A i \in DOMAIN started : started[i] = i
    /\ ndone = IF worker = NoTask THEN Len(started) ELSE Len(started) - 1
    /\ worker # NoTask => worker.id = ndone + 1
    /\ (exch.msg_verb = "REQUEST" /\ exch.msg = "shutdown") =>
          /\ exch.reply.verb = "SUCCESS"
          /\ task_queue # <<>>
          /\ task_queue[Len(task_queue)].kind = "reentry"

\* The reentry task is running, two tasks having been queued before it.
C17_Witness ==
    /\ worker.kind = "reentry"
    /\ worker.id = 3
    /\ ndone = 2

C19_StandardSequence ==
    script >= 0 =>
        /\ Len(path) \in {2 * script, 2 * script + 1}
        /\ \A i \in DOMAIN path : path[i] = Expected[i]
        /\ state = path[Len(path)]
        /\ (exch.msg \in LifecycleVerbs /\ script > 0) =>
              /\ exch.msg = Script[script]
              /\ exch.reply.verb = "SUCCESS"
        /\ (script = 3 /\ Len(path) = 7) => state = "RUN"

C19_Witness ==
    /\ script = 5
    /\ path = Expected
    /\ state = "INIT"

\* ------------------------------------------------------ claims: heartbeat
\* C20: once the state has changed, the next pass of the sender loop
\* publishes a heartbeat with the new state without waiting for the timer:
\* whenever the loop comes to its test with the change made and not yet
\* announced, the transitioned flag is set.  Without a change the loop
\* sleeps only while the period has not passed.
C20_ChangeAnnouncedAtOnce ==
    /\ (hb_pc = "test" /\ fsm_pc = "idle" /\ unannounced) => transitioned
    /\ hb_pc = "sleep" => ~TimerExpired(since_last)
\* ------------------------------------------------ claims: heartbeat checker
\* Ticks without a heartbeat after which a deadline of interval i has passed.
MissAfter(i) == CHOOSE n \in 1..(2 * i + 1) :
                    Missed(n, i) /\ \A m \in 1..(n - 1) : ~Missed(m, i)

\* C21: a peer is declared failed exactly when three consecutive deadlines
\* have passed without a heartbeat of it; the local state then becomes SAFE
\* if it was ORBIT or RUN and stays what it was otherwise; a peer whose
\* heartbeats all arrived within their deadlines is not declared failed.
C21_PeerFailure ==
    \A p \in Peers :
        /\ peer_failed[p] =>
               /\ silent[p] = 3 * MissAfter(promised_interval[p])
               /\ at_failure[p].after =
                      (IF at_failure[p].before \in {"ORBIT", "RUN"}
                       THEN "SAFE" ELSE at_failure[p].before)
        /\ ~peer_failed[p] =>
               silent[p] <= 3 * MissAfter(promised_interval[p])
        /\ ~was_late[p] => ~peer_failed[p]

C21_Witness ==
    /\ peer_failed["A"] /\ at_failure["A"].before = "RUN"
    /\ local_state = "SAFE"
    /\ peer_failed["B"] /\ at_failure["B"].before = "SAFE"

\* ------------------------------------------- claims: monitoring publisher
\* C22: the three frames of a message are next to each other on the
\* socket: every header frame follows the topic frame of its message and
\* every payload frame follows the header frame of its message.
C22_FramesNotInterleaved ==
    \A i \in 1..Len(mon_socket) :
        /\ mon_socket[i].part = "header" =>
               /\ i > 1
               /\ mon_socket[i - 1] =
                      [msg |-> mon_socket[i].msg, part |-> "topic"]
        /\ mon_socket[i].part = "payload" =>
               /\ i > 1
               /\ mon_socket[i - 1] =
                      [msg |-> mon_socket[i].msg, part |-> "header"]

\* -------------------------------------------- claims: monitoring listener
\* C23: while the main thread is inside a poll, the other thread is not
\* inside a register, an unregister or a close on the poll-set, and each of
\* these calls and the poll is made by the thread that holds the lock.
C23_PollSetUnderLock ==
    /\ rm_pc = "poll" => th_pc \notin PollSetChanges
    /\ rm_pc = "poll" => poller_lock = "main"
    /\ th_pc \in PollSetChanges => poller_lock = "task"

\* ---------------------------------------------------- claims: metric sender
\* C24: the loop ends only when it is told to stop; every callback
\* invocation either publishes one metric or logs one error; when the loop
\* reaches its sleep every metric has been invoked within its interval,
\* whatever the other callbacks did; and no callback is invoked again before
\* its interval has elapsed.
C24_FailingMetricIsolated ==
    /\ met_pc = "done" => met_evt
    /\ metrics_sent["m1"] + met_errors["m1"]
           + metrics_sent["m2"] + met_errors["m2"] = met_calls
    /\ met_pc = "sleep" =>
           \A m \in MetricSet :
               /\ since_invoked[m] # -1
               /\ since_invoked[m] <= MetricInterval[m]
    /\ ~retried_early

\* A callback has raised and the metric after it has still been published.
C24_Witness ==
    /\ met_errors["m1"] > 0
    /\ metrics_sent["m2"] > 0
    /\ metrics_sent["m1"] > 0
    /\ met_pc = "sleep"

\* ---------------------------------------------------- claims: configuration
\* C25: after any lookups get_unused_keys() is the set of provided keys
\* that were never looked up, and the requested keys are the keys looked up.
C25_UnusedKeys ==
    cfg_pc = "built" =>
        /\ GetUnusedKeys(cfg_config, requested_keys) = provided \ looked_up
        /\ requested_keys = looked_up

\* A failed lookup, a setdefault that added a key, and a key left unused.
C25_Witness ==
    /\ cfg_result.raised = "KeyError"
    /\ DOMAIN cfg_config # provided
    /\ provided \ looked_up # {}

\* ------------------------------------------------------------ claims: CHIRP
\* C26: unpacking a packed message restores msgtype, group_uuid, host_uuid,
\* serviceid and port.
C26_RoundTrip ==
    (chirp_pc = "done" /\ chirp_buf = pack(chirp_msg)) =>
        /\ chirp_out.raised = "none"
        /\ chirp_out.msg.msgtype = chirp_msg.msgtype
        /\ chirp_out.msg.group_uuid = chirp_msg.group_uuid
        /\ chirp_out.msg.host_uuid = chirp_msg.host_uuid
        /\ chirp_out.msg.serviceid = chirp_msg.serviceid
        /\ chirp_out.msg.port = chirp_msg.port

C26_Witness ==
    /\ chirp_pc = "done"
    /\ chirp_buf = pack(chirp_msg)
    /\ chirp_msg.msgtype = "DEPART"
    /\ chirp_msg.serviceid = "DATA"
    /\ chirp_msg.port = 65535
    /\ chirp_msg.group_uuid # chirp_msg.host_uuid

\* C27: listen returns a well-formed message exactly when its host differs
\* from the listener's and the filter is off or its group is the
\* listener's; otherwise it returns nothing.  The message returned is the
\* one that was sent.
C27_ListenFilter ==
    (chirp_pc = "done" /\ chirp_buf = pack(chirp_msg)) =>
        IF /\ chirp_msg.host_uuid # ListenerHost
           /\ (~filter_group \/ chirp_msg.group_uuid = ListenerGroup)
        THEN listen_ret = [kind |-> "msg", msg |-> chirp_msg]
        ELSE listen_ret.kind = "none"

\* With the filter off a message of another group and host is returned.
C27_Witness ==
    /\ chirp_pc = "done"
    /\ chirp_buf = pack(chirp_msg)
    /\ ~filter_group
    /\ chirp_msg.group_uuid # ListenerGroup
    /\ chirp_msg.host_uuid # ListenerHost
    /\ listen_ret.kind = "msg"

\* C28: a packed message has 42 bytes: the magic CHIRP 0x01, the type, the
\* 16 bytes of the group, the 16 bytes of the host, the service kind and
\* the port, high byte first; an OFFER of CONTROL on port 23999 has type
\* byte 2, kind byte 1 and port bytes 0x5D (93), 0xBF (191).
C28_WireLayout ==
    chirp_pc = "sent" =>
        /\ Len(chirp_buf) = 42
        /\ \A i \in 1..42 : chirp_buf[i] \in 0..255
        /\ SubSeq(chirp_buf, 1, 6) = <<67, 72, 73, 82, 80, 1>>
        /\ chirp_buf[7] = (CASE chirp_msg.msgtype = "REQUEST" -> 1
                             [] chirp_msg.msgtype = "OFFER" -> 2
                             [] chirp_msg.msgtype = "DEPART" -> 3)
        /\ SubSeq(chirp_buf, 8, 23) = chirp_msg.group_uuid
        /\ SubSeq(chirp_buf, 24, 39) = chirp_msg.host_uuid
        /\ chirp_buf[40] = (CASE chirp_msg.serviceid = "CONTROL" -> 1
                              [] chirp_msg.serviceid = "HEARTBEAT" -> 2
                              [] chirp_msg.serviceid = "MONITORING" -> 3
                              [] chirp_msg.serviceid = "DATA" -> 4)
        /\ chirp_buf[41] * 256 + chirp_buf[42] = chirp_msg.port
        /\ (/\ chirp_msg.msgtype = "OFFER"
            /\ chirp_msg.serviceid = "CONTROL"
            /\ chirp_msg.port = 23999) =>
               /\ chirp_buf[7] = 2
               /\ chirp_buf[40] = 1
               /\ chirp_buf[41] = 93
               /\ chirp_buf[42] = 191

C28_Witness ==
    /\ chirp_pc = "sent"
    /\ chirp_msg.msgtype = "OFFER"
    /\ chirp_msg.serviceid = "CONTROL"
    /\ chirp_msg.port = 23999

\* ------------------------------------------------------- claims: run cycles
\* C29: the run number is 0 before any run; when no start carries a run
\* number it is n after the n-th start/stop cycle, and every run has
\* written its own file, named with that run number.
C29_RunNumberCounts ==
    /\ cyc_started = 0 => cyc_run_number = PyInt(0)
    /\ (cyc_bare /\ cyc_pc = "idle" /\ cyc_stopped > 0) =>
           /\ cyc_run_number = PyInt(cyc_stopped)
           /\ \A n \in 1..cyc_stopped :
                  \E p \in DOMAIN cyc_fs :
                      /\ cyc_fs[p] = n
                      /\ p[2].run = PyInt(n)

\* ----------------------------------------------------- claims: data sources
\* C30: after the departure of a DATA service that was added before, the
\* callback has not raised, the sender is no longer among the data sources
\* and no pull socket of it is left open or registered.
C30_SenderRemoved ==
    (~src_last.alive /\ src_last.host \in Hosts) =>
        /\ src_raised = "none"
        /\ src_last.host \notin GetDataSources(pull_interfaces)
        /\ \A k \in pull_sockets \cup src_registered : k.id # src_last.host

\* C31: do_landing and fail_gracefully close all open sockets: when either
\* returns, no pull socket is left open, none is registered with the poller
\* and nothing was raised, whether the senders were known before launch or
\* were added in ORBIT or RUN.
C31_LandingClosesAll ==
    [][(do_landing \/ fail_gracefully)
         => /\ pull_sockets' = {}
            /\ src_registered' = {}
            /\ src_raised' = "none"]_vars

\* C32: every request read from the command socket is answered by one reply
\* before the next request is read, whatever the request, the guard and the
\* handler are.
C32_OneReplyPerRequest ==
    exch.msg_verb # "" => exch.reply # NoReply /\ ~exch.died

\* C33: the handler of a command that has a guard is called only when the
\* guard returned true for the request; when the guard raises, whatever the
\* exception, the handler is not called.
C33_HandlerOnlyAfterGuardTrue ==
    (exch.guard # "absent" /\ exch.out # NotCalled) => exch.guard = "true"

\* C34: no discovery callback of the monitoring listener runs before the
\* metric poller and the poller lock exist, and once the constructor and the
\* task handler are through, every discovered peer has a log listener and a
\* metric socket registered in the poller.
C34_CallbackAfterPoller ==
    /\ handler_pc # "idle" => has_poller /\ has_poller_lock
    /\ (ctor_pc = CtorDone /\ handler_pc = "idle" /\ ctor_task_queue = <<>>)
       => \A u \in discovered :
             /\ u \in log_listeners
             /\ u \in ctor_sockets
             /\ u \in ctor_registered

\* C35: the metric sender loop is left only when the stop event is set,
\* also when metrics are scheduled or reset from another thread while it
\* iterates, and a metric scheduled that way is first published within one
\* iteration of the loop after its registration.
C35_SenderSurvivesScheduling ==
    /\ sch_pc # "dead"
    /\ sch_pc = "stopped" => sch_evt
    /\ \A m \in Scheduled : sch_waiting[m] <= 1

\* C36: a BOR from a sender whose group is already in the run file (a second
\* BOR, a BOR after late-joiner data, a sender named like the receiver)
\* leaves the file and the running senders as they are and does not fail.
C36_BorOncePerSender ==
    /\ (~last.bad /\ last.item.msgtype = BOR /\ ~last.late)
          => last.same /\ ~last.raised
    /\ RxName \in DOMAIN h5file =>
          LET w == WriteData(h5file, running_sats, run_number,
                             [name |-> RxName, msgtype |-> BOR,
                              sequence_number |-> 0, meta |-> RunMeta,
                              payload |-> PyNone])
          IN  w.file = h5file /\ w.sats = running_sats /\ ~w.raised

\* The BOR of a late joiner was handled after its data.
C36_Witness ==
    /\ ~last.bad
    /\ last.item.msgtype = BOR
    /\ ~last.late
    /\ rx_pc # "raised"
    /\ DOMAIN h5file[last.item.name].dsets # {}
    /\ "BOR" \notin DOMAIN h5file[last.item.name].subs

\* C37: has_unused_values() is true exactly when get_unused_keys() is not
\* empty, after any lookups, those of missing keys included.
C37_HasUnusedIffUnusedKeys ==
    cfg_pc = "built" =>
        (HasUnusedValues(cfg_config, requested_keys)
           <=> GetUnusedKeys(cfg_config, requested_keys) # {})

\* C38: get_applied() never fails and returns exactly the entries of the
\* requested keys that are present, after any lookups, a failed one included.
C38_AppliedNeverFails ==
    cfg_pc = "built" =>
        LET a == GetApplied(cfg_config, requested_keys) IN
        /\ a.raised = "none"
        /\ a.value = [k \in requested_keys \cap DOMAIN cfg_config |->
                        cfg_config[k]]

\* C39: update(d) sets config[k] = d[k] for every key of d and leaves every
\* key of d unused; the value and the requested status of every other key
\* are as before.
C39_UpdateMarksUnused ==
    [][\A d \in UpdateDicts :
          cfg_update_with(d) =>
             /\ DOMAIN cfg_config' = DOMAIN cfg_config \cup DOMAIN d
             /\ \A k \in DOMAIN d :
                   /\ cfg_config'[k] = d[k]
                   /\ k \in GetUnusedKeys(cfg_config', requested_keys')
             /\ \A k \in DOMAIN cfg_config \ DOMAIN d :
                   cfg_config'[k] = cfg_config[k]
             /\ requested_keys' \ DOMAIN d = requested_keys \ DOMAIN d]_vars

\* An update made a key unused that had been looked up, and another key is
\* still requested.
C39_Witness ==
    /\ cfg_pc = "updated"
    /\ looked_up \cap GetUnusedKeys(cfg_config, requested_keys) # {}
    /\ requested_keys \cap DOMAIN cfg_config # {}

\* C40: once the run loop of the stage satellite has found the cancellation
\* event set, it issues no further move_to to any axis before do_run
\* returns, whatever the lists of z, x, y and r positions are.
C40_NoMoveAfterStopSeen == late_moves = <<>>

====
